---- MODULE Spec2Model ----
(***************************************************************************)
(* A model of the assistant backend of argokz/ai-aliya:                    *)
(*   - LLMService (app/services/llm_service.py): the primary strategy      *)
(*     (OpenAI), the secondary strategy (the list of Gemini models) and    *)
(*     the remembered model _working_gemini_model, in atomic mode          *)
(*     (generate_reply) and in streaming mode (generate_reply_stream);     *)
(*   - the assistant router (app/routers/assistant.py): chat,              *)
(*     chat_stream and transcribe_and_chat;                                *)
(*   - the speaker store (app/services/voice_service.py and                *)
(*     app/routers/voice.py): enroll_voice, list_speakers and              *)
(*     _sanitize_speaker_id;                                               *)
(*   - the lazily constructed engines: STTService._get_model,              *)
(*     VoiceService._get_tts and VoiceService._get_qwen_tts.               *)
(*                                                                         *)
(* Requests run as asyncio tasks on one event loop: the code between two   *)
(* awaits (or two yields of a generator) runs without interleaving, so     *)
(* every action below is one such stretch.  A provider call (OpenAI, a     *)
(* Gemini model, STT, voice synthesis) is an await whose result the model  *)
(* draws from the outcomes the provider can give.  The work handed to      *)
(* asyncio.to_thread runs on worker threads, whose steps interleave at the *)
(* level of single reads and writes.                                       *)
(***************************************************************************)
EXTENDS Integers, Sequences, FiniteSets, TLC

\* Bounds of the model.
NumCalls == 2
NumModels == 2
MaxFrags == 2
NumEnrolls == 2
NumThreads == 2
MaxLen == 3

Calls == 1..NumCalls

\* The enroll requests that can be in flight at once.
Enrolls == 1..NumEnrolls

\* The threads that can be inside an engine getter at once.
Threads == 1..NumThreads

\* self._working_gemini_model = None
None == 0

\* settings.gemini_models, after split(",") / strip / drop-empty: the
\* configured list, in configured order.
GeminiModels == [i \in 1..NumModels |-> i]

Range(s) == {s[i] : i \in DOMAIN s}

--------------------------------------------------------------------------
\* Speaker identities are strings, modelled as sequences of characters.

\* The characters of the identities sent: letters, "_" and "-", which
\* [a-zA-Z0-9_-] matches, and "!", which it does not.
SafeChars == {"a", "b", "A", "l", "i", "y", "_", "-"}
Chars == {"a", "b", "_", "-", "!"}

\* Faulty variant of IsSafeChar: a character class that lets "!" through.
IsSafeChar_AllowsPunctuation(ch) == ch \in SafeChars \cup {"!"}

IsSafeChar(ch) == ch \in SafeChars

\* _SANITIZE_RE.sub("_", speaker_id): every maximal run of characters outside
\* [a-zA-Z0-9_-] becomes one "_".
RECURSIVE SubUnsafe(_, _)
SubUnsafe(s, inRun) ==
    IF s = <<>> THEN <<>>
    ELSE IF IsSafeChar(Head(s)) THEN <<Head(s)>> \o SubUnsafe(Tail(s), FALSE)
    ELSE IF inRun THEN SubUnsafe(Tail(s), TRUE)
    ELSE <<"_">> \o SubUnsafe(Tail(s), TRUE)

\* str.strip("_")
RECURSIVE LStrip(_)
LStrip(s) ==
    IF s # <<>> /\ Head(s) = "_" THEN LStrip(Tail(s)) ELSE s

RECURSIVE RStrip(_)
RStrip(s) ==
    IF s # <<>> /\ s[Len(s)] = "_" THEN RStrip(SubSeq(s, 1, Len(s) - 1)) ELSE s

\* The cleaned identifier of _sanitize_speaker_id; <<>> is the case in which
\* it raises ValueError("Invalid speaker_id").
Sanitize(s) == RStrip(LStrip(SubUnsafe(s, FALSE)))

\* speaker_id: str | None
NoSpeaker == [present |-> FALSE, id |-> <<>>]
Speaker(s) == [present |-> TRUE, id |-> s]

SpeakerInputs ==
    {NoSpeaker, Speaker(<<>>), Speaker(<<"!">>), Speaker(<<"b">>)}

\* Python truthiness of `speaker_id`: None and "" are falsy.
Truthy(sp) == sp.present /\ sp.id # <<>>

\* The speaker identities sent to POST /voice/enroll.
EnrollSpeakers == {<<"a">>, <<"a", "!">>, <<"b">>, <<"!">>}

\* The speaker that synthesize treats by settings.tts_mode.
Aliya == <<"a", "l", "i", "y", "a">>

\* The speaker identities handed to synthesize.
SynthSpeakers == {Aliya, <<"A", "l", "i", "y", "a">>, <<"a">>, <<"!">>}

\* str.lower() on the identities above.
LowerId(id) == [i \in DOMAIN id |-> IF id[i] = "A" THEN "a" ELSE id[i]]

\* The names a speaker directory can have.
SpeakerDirs ==
    {Sanitize(id) : id \in EnrollSpeakers \cup SynthSpeakers} \ {<<>>}

--------------------------------------------------------------------------
VARIABLES
    ai_priority,            \* settings.ai_priority
    whisper_use_remote,     \* settings.whisper_use_remote
    working_gemini_model,   \* LLMService._working_gemini_model
    call,                   \* the requests in flight, one record per task
    last_reply              \* history: the last call of the LLM service that
                            \* reached the secondary strategy

\* The turn: the settings, the LLM service and the requests in flight.
turnVars ==
    <<ai_priority, whisper_use_remote, working_gemini_model, call, last_reply>>

VARIABLES
    stub,                   \* the deterministic provider stubs of a comparison
    equiv                   \* the two runs compared: generate_reply and
                            \* generate_reply_stream on the same inputs

\* The comparison of the two modes of the LLM service on one stub.
equivVars == <<stub, equiv>>

VARIABLES
    voices_dir,             \* the file system under settings.voices_dir
    enroll,                 \* the enroll requests in flight
    listing,                \* the response of GET /voice/speakers
    last_enrolled           \* history: per speaker directory, the reference
                            \* of the enroll request that returned last

\* The speaker store.
storeVars == <<voices_dir, enroll, listing, last_enrolled>>

VARIABLES
    san                     \* a speaker identity and what sanitizing it gave

VARIABLES
    engine,                 \* the lazily constructed engines of the services
    thread                  \* the threads inside _get_model / _get_tts /
                            \* _get_qwen_tts

\* The engines of STTService and VoiceService.
engineVars == <<engine, thread>>

VARIABLES
    synth                   \* the settings of VoiceService.synthesize and the
                            \* call of it in flight

VARIABLES
    request                 \* settings.openai_model, whether an API key is set,
                            \* and the request each mode built for the model

vars == <<turnVars, equivVars, storeVars, san, engineVars, synth, request>>

--------------------------------------------------------------------------
\* Deterministic provider stubs.  A text is a string, modelled as a sequence
\* of characters; a stub fixes, for the OpenAI model and for every Gemini
\* model, the chunks the provider delivers for the request and whether it
\* then completes or raises.  The same stub answers the call without
\* streaming (its content is the concatenation of the chunks) and the call
\* with stream=True.

ChunkValues == {<<>>, <<" ">>, <<"x">>}

\* full_text += chunk; " ".join(...)
RECURSIVE Concat(_)
Concat(ss) == IF ss = <<>> THEN <<>> ELSE Head(ss) \o Concat(Tail(ss))

\* str.strip(): leading and trailing whitespace is removed.
RECURSIVE LStripWs(_)
LStripWs(t) == IF t # <<>> /\ Head(t) = " " THEN LStripWs(Tail(t)) ELSE t

RECURSIVE RStripWs(_)
RStripWs(t) ==
    IF t # <<>> /\ t[Len(t)] = " "
    THEN RStripWs(SubSeq(t, 1, Len(t) - 1))
    ELSE t

StripWs(t) == RStripWs(LStripWs(t))

SeqsUpTo(S, n) == UNION {[1..k -> S] : k \in 0..n}

Scripts == [chunks : SeqsUpTo(ChunkValues, MaxFrags), raises : BOOLEAN]

Stubs == [openai : Scripts, gemini : [1..NumModels -> Scripts]]

NoScript == [chunks |-> <<>>, raises |-> TRUE]

NoStub == [openai |-> NoScript, gemini |-> [m \in 1..NumModels |-> NoScript]]

\* What a run of generate_reply gave: the text returned or the exception
\* raised, the models attempted and the remembered model afterwards.
NoReply ==
    [ done   |-> FALSE,
      raised |-> FALSE,
      text   |-> <<>>,
      tried  |-> <<>>,
      w      |-> None ]

\* What a run of generate_reply_stream gave: the fragments yielded, in order,
\* those of the primary strategy among them, the models attempted, the model
\* whose stream completed and the remembered model afterwards.
NoFragments ==
    [ done          |-> FALSE,
      frags         |-> <<>>,
      primary       |-> "none",
      primary_frags |-> <<>>,
      tried         |-> <<>>,
      won           |-> None,
      w             |-> None ]

\* No comparison is under way.
EquivIdle ==
    /\ stub = NoStub
    /\ equiv = [w0 |-> None, atomic |-> NoReply, stream |-> NoFragments]

--------------------------------------------------------------------------
\* The speaker store: the directories under settings.voices_dir, one per
\* sanitized speaker identity, and the reference files in them.  A file is
\* reference<suffix> in directory dir, holding the bytes data.

NoVoices == [dirs |-> {}, files |-> {}]

\* No reference file.
NoFile == [dir |-> <<>>, suffix |-> "", data |-> ""]

\* An enroll slot that runs no request.
IdleEnroll ==
    [ pc         |-> "idle",
      speaker_id |-> <<>>,      \* the form field, as sent
      filename   |-> "",        \* the suffix of audio.filename, as sent
      data       |-> "",        \* the bytes of the upload
      dir        |-> <<>>,      \* the name of speaker_dir
      suffix     |-> "",        \* the suffix of target
      status     |-> 0,         \* HTTP status of the response
      detail     |-> "none" ]   \* which check refused the request

NoListing == [pc |-> "none", speakers |-> <<>>]

\* The state after construction: no speaker is enrolled.
StoreInit ==
    /\ voices_dir = NoVoices
    /\ enroll = [t \in Enrolls |-> IdleEnroll]
    /\ listing = NoListing
    /\ last_enrolled = [d \in SpeakerDirs |-> NoFile]

\* No identity is being sanitized.
SanIdle == san = [pc |-> "idle", speaker_id |-> <<>>, cleaned |-> <<>>,
                  again |-> <<>>, raised |-> FALSE]

--------------------------------------------------------------------------
\* The engines: STTService._model, VoiceService._tts and VoiceService._qwen_tts,
\* each constructed on first use by the thread that asks for it.

EngineNames == {"stt", "tts", "qwen"}

\* _get_tts and _get_qwen_tts take self._tts_lock / self._qwen_lock;
\* _get_model takes no lock.
HasLock(e) == e \in {"tts", "qwen"}

NoThread == 0

\* self._model = None, self._tts = None, self._qwen_tts = None, and the locks
\* free; built counts the engines constructed, handed is the set of engines
\* the getter has returned.
NoEngine == [obj |-> None, lock |-> NoThread, built |-> 0, handed |-> {}]

\* A thread outside the getters.
IdleThread == [pc |-> "idle", target |-> "stt", got |-> None]

EnginesInit ==
    /\ engine = [e \in EngineNames |-> NoEngine]
    /\ thread = [t \in Threads |-> IdleThread]

--------------------------------------------------------------------------
\* VoiceService.synthesize: the settings it reads and the call in flight.
\* aliya_reference is whether the file settings.aliya_reference_audio names
\* exists; log is the stages the call has run, each with what it gave.
IdleSynth ==
    [ pc              |-> "idle",
      tts_mode        |-> "aliya_xtts", \* settings.tts_mode
      remote_worker   |-> FALSE,        \* use_remote_worker and qwen_worker_url
      aliya_reference |-> TRUE,
      speaker_id      |-> <<>>,
      dir             |-> <<>>,         \* safe_speaker_id
      reference       |-> NoFile,       \* what _get_reference_audio returned
      log             |-> <<>>,
      result          |-> "none" ]      \* ok, or the exception raised

SynthIdle == synth = IdleSynth

--------------------------------------------------------------------------
\* The OpenAI request of _generate_openai and of _generate_openai_stream.
\* A request is what create() was called with, or the exception raised
\* before the call.
NoRequest == [built |-> FALSE, raised |-> "none", kwargs |-> {}]

RequestIdle ==
    request = [openai_model |-> <<"g", "p", "t", "-", "4">>, api_key |-> TRUE,
               atomic |-> NoRequest, stream |-> NoRequest]

--------------------------------------------------------------------------
\* A request slot that runs no request.
IdleCall ==
    [ kind           |-> "idle",
      pc             |-> "idle",
      speaker_id     |-> NoSpeaker,
      generate_audio |-> FALSE,
      \* generate_reply / generate_reply_stream
      primary        |-> "none",    \* the primary strategy: none, ok, fail
      models         |-> <<>>,      \* the local list `models` (streaming)
      idx            |-> 0,         \* position of the loop over the list
      cur            |-> None,      \* the model whose call is awaited
      frags          |-> 0,         \* fragments of the attempt under way
      attempts       |-> <<>>,      \* history: the Gemini attempts made
      rem_at_entry   |-> None,      \* history: remembered model at entry
      rem_at_return  |-> None,      \* history: remembered model at return
      exhausted      |-> FALSE,     \* history: every provider failed
      \* the turn
      events         |-> <<>>,      \* the records yielded by stream_generator
      status         |-> 0,         \* HTTP status of the atomic response
      audio_url      |-> "unset",   \* TurnResult.audio_url: unset, null, url
      synth_calls    |-> 0,         \* invocations of VoiceService.synthesize
      synth_result   |-> "none",    \* what synthesize gave: ok or the exception
      synth_text     |-> "none",    \* the local passed to synthesize as text
      \* transcribe_and_chat
      upload_empty   |-> FALSE,     \* the uploaded audio has no bytes
      stt_calls      |-> 0,         \* invocations of STTService.transcribe
      temp_file      |-> FALSE,     \* temp_path exists under uploads_dir
      user_text      |-> "unset" ]  \* unset, text, or empty (the string "")

\* The state after construction: LLMService.__init__ and no request.
TurnInit ==
    /\ working_gemini_model = None
    /\ call = [c \in Calls |-> IdleCall]
    /\ last_reply = [mode |-> "none", primary |-> "none", won |-> None]

Init ==
    /\ ai_priority \in {"gpt", "gemini"}
    /\ whisper_use_remote \in BOOLEAN
    /\ TurnInit
    /\ EquivIdle
    /\ StoreInit
    /\ SanIdle
    /\ EnginesInit
    /\ SynthIdle
    /\ RequestIdle

\* The request is inside generate_reply or generate_reply_stream.
InLLM(pc) ==
    pc \in {"openai", "gemini_remembered", "gemini_list",
            "openai_stream", "gemini_stream"}

\* Which call of the LLM service r was: its mode, what the primary strategy
\* did and the model whose text it returned (None if no model did).
ReplySummary(r) ==
    [ mode    |-> IF r.kind = "chat_stream" THEN "stream" ELSE "atomic",
      primary |-> r.primary,
      won     |-> IF r.attempts # <<>> /\ r.attempts[Len(r.attempts)].res = "ok"
                  THEN r.attempts[Len(r.attempts)].m
                  ELSE None ]

\* A step of request c: its record becomes r, the remembered model w.
Step(c, r, w) ==
    /\ call' = [call EXCEPT ![c] = r]
    /\ working_gemini_model' = w
    /\ last_reply' = IF InLLM(call[c].pc) /\ ~InLLM(r.pc) /\ r.primary # "ok"
                     THEN ReplySummary(r)
                     ELSE last_reply
    /\ UNCHANGED <<ai_priority, whisper_use_remote>>
    /\ UNCHANGED <<equivVars, storeVars, san, engineVars, synth, request>>

--------------------------------------------------------------------------
\* VoiceService.synthesize, at its boundary.

\* What `await voice_service.synthesize(...)` can give for a speaker: the path
\* of the artifact ("ok") or the class of the exception raised.  A speaker
\* identity that is empty after sanitization raises ValueError before any
\* await; otherwise the reference may be missing (FileNotFoundError), the
\* engine or the worker may fail (RuntimeError), or the engine may raise
\* anything else ("Exception").
SynthesizeRaisesValueError(sp) == Sanitize(sp.id) = <<>>

SynthesizeOutcomes(sp) ==
    IF SynthesizeRaisesValueError(sp)
    THEN {"ValueError"}
    ELSE {"ok", "FileNotFoundError", "RuntimeError", "Exception"}

\* Faulty variant of WantsAudio: `speaker_id is not None` in place of the
\* truthiness test, so the empty string counts as a speaker.
WantsAudio_EmptySpeakerCounts(r) == r.generate_audio /\ r.speaker_id.present

\* `if generate_audio and speaker_id:`
WantsAudio(r) == r.generate_audio /\ Truthy(r.speaker_id)

--------------------------------------------------------------------------
\* The atomic turn: _run_assistant_flow under chat.

\* return AssistantTurnResponse(..., audio_url=audio_url): the endpoint
\* answers 200 with the TurnResult (in transcribe_and_chat, after the
\* `finally` has unlinked temp_path).
TurnResult(r, audio) ==
    [r EXCEPT !.pc = "finished", !.status = 200, !.audio_url = audio,
              !.temp_file = FALSE]

\* Faulty variant of EndpointRaises: the endpoint without its
\* `except RuntimeError` clause, every exception unhandled.
EndpointRaises_Unhandled(r, exc) ==
    [r EXCEPT !.pc = "finished", !.status = 500, !.temp_file = FALSE]

\* An exception leaves the try block of chat or transcribe_and_chat: the
\* endpoint turns RuntimeError into HTTPException(502); any other exception is
\* unhandled and FastAPI answers 500.  No TurnResult is constructed.  In
\* transcribe_and_chat the `finally` unlinks temp_path; chat has no temp file.
EndpointRaises(r, exc) ==
    [r EXCEPT !.pc = "finished",
              !.status = IF exc = "RuntimeError" THEN 502 ELSE 500,
              !.temp_file = FALSE]

\* Faulty variant of FlowSynthesizeReturns: the URL is built although
\* synthesize raised FileNotFoundError.
FlowSynthesizeReturns_UrlWithoutArtifact(r, res) ==
    LET r1 == [r EXCEPT !.synth_result = res] IN
    CASE res = "ok"                -> TurnResult(r1, "url")
      [] res = "FileNotFoundError" -> TurnResult(r1, "url")
      [] OTHER                     -> EndpointRaises(r1, res)

\* The try/except around synthesize in _run_assistant_flow: only
\* FileNotFoundError is caught.
FlowSynthesizeReturns(r, res) ==
    LET r1 == [r EXCEPT !.synth_result = res] IN
    CASE res = "ok"                -> TurnResult(r1, "url")
      [] res = "FileNotFoundError" -> TurnResult(r1, "null")
      [] OTHER                     -> EndpointRaises(r1, res)

\* _run_assistant_flow after generate_reply has returned the text: emotion
\* detection, then synthesis if audio is wanted, up to the next await.
FlowAfterReply(r) ==
    IF WantsAudio(r)
    THEN LET r1 == [r EXCEPT !.synth_calls = @ + 1,
                             !.synth_text = "assistant_text"] IN
         IF SynthesizeRaisesValueError(r.speaker_id)
         THEN FlowSynthesizeReturns(r1, "ValueError")
         ELSE [r1 EXCEPT !.pc = "synthesize"]
    ELSE TurnResult(r, "null")

--------------------------------------------------------------------------
\* The streaming turn: stream_generator under chat_stream.

Emit(r, ev) == [r EXCEPT !.events = Append(@, ev)]

\* yield {"type": "done"}: the generator ends.
StreamDone(r) == [Emit(r, "done") EXCEPT !.pc = "finished"]

\* Faulty variant of StreamSynthesizeReturns: the error event of the audio
\* stage ends the stream, no done event follows it.
StreamSynthesizeReturns_ErrorEndsStream(r, res) ==
    LET r1 == [r EXCEPT !.synth_result = res] IN
    IF res = "ok"
    THEN StreamDone(Emit(r1, "audio"))
    ELSE [Emit(r1, "error") EXCEPT !.pc = "finished"]

\* Faulty variant of StreamSynthesizeReturns: the inner handler catches only
\* FileNotFoundError, as _run_assistant_flow does, and the audio stage is
\* skipped in silence; any other exception reaches the outer handler, whose
\* error event ends the stream.
StreamSynthesizeReturns_CatchesOnlyFileNotFound(r, res) ==
    LET r1 == [r EXCEPT !.synth_result = res] IN
    CASE res = "ok"                -> StreamDone(Emit(r1, "audio"))
      [] res = "FileNotFoundError" -> StreamDone(r1)
      [] OTHER                     -> [Emit(r1, "error") EXCEPT !.pc = "finished"]

\* The try/except Exception around synthesize in stream_generator, then done.
StreamSynthesizeReturns(r, res) ==
    LET r1 == [r EXCEPT !.synth_result = res] IN
    IF res = "ok"
    THEN StreamDone(Emit(r1, "audio"))
    ELSE StreamDone(Emit(r1, "error"))

\* Faulty variant of StreamAfterReply: the emotion event is emitted inside the
\* audio branch only.
StreamAfterReply_EmotionOnlyWithAudio(r) ==
    IF WantsAudio(r)
    THEN LET r2 == [Emit(r, "emotion") EXCEPT !.synth_calls = @ + 1,
                                              !.synth_text = "full_text"] IN
         IF SynthesizeRaisesValueError(r.speaker_id)
         THEN StreamSynthesizeReturns(r2, "ValueError")
         ELSE [r2 EXCEPT !.pc = "synthesize"]
    ELSE StreamDone(r)

\* stream_generator after generate_reply_stream is exhausted: the emotion
\* event, then synthesis if audio is wanted, up to the next await.
StreamAfterReply(r) ==
    LET r1 == Emit(r, "emotion") IN
    IF WantsAudio(r)
    THEN LET r2 == [r1 EXCEPT !.synth_calls = @ + 1,
                              !.synth_text = "full_text"] IN
         IF SynthesizeRaisesValueError(r.speaker_id)
         THEN StreamSynthesizeReturns(r2, "ValueError")
         ELSE [r2 EXCEPT !.pc = "synthesize"]
    ELSE StreamDone(r1)

\* The reply text is complete: what the turn does next, by endpoint.
AfterReply(r) ==
    IF r.kind = "chat_stream" THEN StreamAfterReply(r) ELSE FlowAfterReply(r)

\* Faulty variant of ReplyRaises: the failure of generate_reply is swallowed
\* and the turn goes on with the later stages.
ReplyRaises_GoesOn(r, exc) == FlowAfterReply(r)

\* generate_reply raises: only the atomic mode ever does.
ReplyRaises(r, exc) == EndpointRaises(r, exc)

--------------------------------------------------------------------------
\* LLMService.  Each operator is a stretch of the service's code between two
\* awaits, as a function of the request's record r and of the remembered
\* model w; it gives the record and the remembered model after the stretch.

Res(r, w) == [r |-> r, w |-> w]

\* History: the attempt on model r.cur ended with res.
Attempt(r, res) ==
    [r EXCEPT !.attempts = Append(@, [m |-> r.cur, res |-> res])]

\* The reply is complete and control is back in the turn: the locals of the
\* service are gone.
ReplyReturned(r, w) ==
    [r EXCEPT !.cur = None, !.idx = 0, !.frags = 0, !.models = <<>>,
              !.rem_at_return = w]

\* _generate_gemini_with_failover, step 2: the loop over the configured
\* models from position i, up to the await of the next model's call; past
\* the end of the list it raises RuntimeError("All LLM models failed").
GeminiListFrom(r, i, w) ==
    IF i <= Len(GeminiModels)
    THEN Res([r EXCEPT !.pc = "gemini_list", !.idx = i,
                       !.cur = GeminiModels[i]], w)
    ELSE Res(ReplyRaises(ReplyReturned([r EXCEPT !.exhausted = TRUE], w),
                         "RuntimeError"), w)

\* _generate_gemini_with_failover, step 1: the last working model, if one is
\* remembered, is called first.
GeminiWithFailover(r, w) ==
    LET r1 == [r EXCEPT !.rem_at_entry = w] IN
    IF w # None
    THEN Res([r1 EXCEPT !.pc = "gemini_remembered", !.cur = w], w)
    ELSE GeminiListFrom(r1, 1, w)

\* The call of the remembered model returns: its text is the reply, or
\* `except Exception: self._working_gemini_model = None` and the loop starts.
GeminiRememberedReturns(r, res, w) ==
    IF res = "ok"
    THEN Res(AfterReply(ReplyReturned(Attempt(r, "ok"), w)), w)
    ELSE GeminiListFrom(Attempt(r, "fail"), 1, None)

\* Faulty variant of GeminiListReturns: the model that answered is not
\* remembered.
GeminiListReturns_NotRemembered(r, res, w) ==
    IF res = "ok"
    THEN Res(AfterReply(ReplyReturned(Attempt(r, "ok"), w)), w)
    ELSE GeminiListFrom(Attempt(r, "fail"), r.idx + 1, w)

\* The call of a model of the list returns: it becomes the remembered model
\* and its text is the reply, or the loop continues with the next model.
GeminiListReturns(r, res, w) ==
    IF res = "ok"
    THEN Res(AfterReply(ReplyReturned(Attempt(r, "ok"), r.cur)), r.cur)
    ELSE GeminiListFrom(Attempt(r, "fail"), r.idx + 1, w)

\* generate_reply up to its first await.
GenerateReply(r, w) ==
    IF ai_priority = "gpt"
    THEN Res([r EXCEPT !.pc = "openai"], w)
    ELSE GeminiWithFailover(r, w)

\* `return await self._generate_openai(messages)` or, on any exception, the
\* fallback to Gemini.
OpenAIReturns(r, res, w) ==
    IF res = "ok"
    THEN Res(AfterReply(ReplyReturned([r EXCEPT !.primary = "ok"], w)), w)
    ELSE GeminiWithFailover([r EXCEPT !.primary = "fail"], w)

\* list.remove(x): the first occurrence of x leaves the list.
RECURSIVE RemoveFirst(_, _)
RemoveFirst(s, x) ==
    IF s = <<>> THEN <<>>
    ELSE IF Head(s) = x THEN Tail(s)
    ELSE <<Head(s)>> \o RemoveFirst(Tail(s), x)

\* Faulty variant of StreamModels: the streaming mode keeps a remembered model
\* of its own and does not see the one the service holds.
StreamModels_IgnoresRemembered(w) == GeminiModels

\* _generate_gemini_stream_with_failover: the local list `models`, with the
\* remembered model moved to the front when it is in the list.
StreamModels(w) ==
    IF w # None /\ w \in Range(GeminiModels)
    THEN <<w>> \o RemoveFirst(GeminiModels, w)
    ELSE GeminiModels

\* _generate_gemini_stream_with_failover: the loop over `models` from position
\* i, up to the await of the next model's stream; past the end of the list
\* the generator simply ends.
GeminiStreamFrom(r, i, w) ==
    IF i <= Len(r.models)
    THEN Res([r EXCEPT !.pc = "gemini_stream", !.idx = i,
                       !.cur = r.models[i], !.frags = 0], w)
    ELSE Res(AfterReply(ReplyReturned([r EXCEPT !.exhausted = TRUE], w)), w)

GeminiStreamWithFailover(r, w) ==
    GeminiStreamFrom([r EXCEPT !.models = StreamModels(w),
                               !.rem_at_entry = w], 1, w)

\* Faulty variant of GeminiStreamEnds: a model that fails after it has
\* yielded fragments ends the reply, no further model is tried.
GeminiStreamEnds_StopsAfterPartial(r, res, w) ==
    IF res = "ok"
    THEN Res(AfterReply(ReplyReturned(Attempt(r, "ok"), r.cur)), r.cur)
    ELSE IF r.frags > 0
    THEN Res(AfterReply(ReplyReturned(Attempt(r, "fail"), w)), w)
    ELSE GeminiStreamFrom(Attempt(r, "fail"), r.idx + 1, w)

\* The stream of model r.cur ends: `self._working_gemini_model = model_name;
\* return`, or `except Exception: continue`.
GeminiStreamEnds(r, res, w) ==
    IF res = "ok"
    THEN Res(AfterReply(ReplyReturned(Attempt(r, "ok"), r.cur)), r.cur)
    ELSE GeminiStreamFrom(Attempt(r, "fail"), r.idx + 1, w)

\* generate_reply_stream up to its first await.
GenerateReplyStream(r, w) ==
    IF ai_priority = "gpt"
    THEN Res([r EXCEPT !.pc = "openai_stream", !.frags = 0], w)
    ELSE GeminiStreamWithFailover(r, w)

\* The OpenAI stream ends: `return`, or on any exception the fallback.
OpenAIStreamEnds(r, res, w) ==
    IF res = "ok"
    THEN Res(AfterReply(ReplyReturned([r EXCEPT !.primary = "ok"], w)), w)
    ELSE GeminiStreamWithFailover([r EXCEPT !.primary = "fail"], w)

\* A provider yields a fragment: generate_reply_stream yields it and
\* stream_generator yields the text event.
Chunk(r) == [Emit(r, "text") EXCEPT !.frags = @ + 1]

--------------------------------------------------------------------------
\* LLMService on a deterministic stub: generate_reply and
\* generate_reply_stream as functions of the stub st, of settings.ai_priority
\* and of the remembered model w, with the texts they handle.

\* _generate_openai: the call raises, or the content is empty and
\* RuntimeError("OpenAI returned an empty response") is raised, or
\* content.strip() is returned.
GenerateOpenAI(script) ==
    LET content == Concat(script.chunks) IN
    IF script.raises \/ content = <<>>
    THEN [ok |-> FALSE, text |-> <<>>]
    ELSE [ok |-> TRUE, text |-> StripWs(content)]

\* _generate_gemini: the same with response.text.
GenerateGemini(script) ==
    LET text == Concat(script.chunks) IN
    IF script.raises \/ text = <<>>
    THEN [ok |-> FALSE, text |-> <<>>]
    ELSE [ok |-> TRUE, text |-> StripWs(text)]

\* _generate_openai_stream and _generate_gemini_stream: every chunk with a
\* non-empty text is yielded as it is; then the generator ends or raises.
GenerateStream(script) ==
    [ frags |-> SelectSeq(script.chunks, LAMBDA ch : ch # <<>>),
      ok    |-> ~script.raises ]

\* _generate_gemini_with_failover, step 2: the loop over the configured list.
RECURSIVE ReplyOfGeminiList(_, _, _)
ReplyOfGeminiList(st, i, tried) ==
    IF i > Len(GeminiModels)
    THEN [NoReply EXCEPT !.done = TRUE, !.raised = TRUE, !.tried = tried]
    ELSE LET m == GeminiModels[i]
             g == GenerateGemini(st.gemini[m])
         IN IF g.ok
            THEN [NoReply EXCEPT !.done = TRUE, !.text = g.text,
                                 !.tried = Append(tried, m), !.w = m]
            ELSE ReplyOfGeminiList(st, i + 1, Append(tried, m))

\* _generate_gemini_with_failover.
ReplyOfGeminiWithFailover(st, w) ==
    IF w # None
    THEN LET g == GenerateGemini(st.gemini[w]) IN
         IF g.ok
         THEN [NoReply EXCEPT !.done = TRUE, !.text = g.text,
                              !.tried = <<w>>, !.w = w]
         ELSE ReplyOfGeminiList(st, 1, <<w>>)
    ELSE ReplyOfGeminiList(st, 1, <<>>)

\* generate_reply.
ReplyOfGenerateReply(st, priority, w) ==
    IF priority = "gpt"
    THEN LET g == GenerateOpenAI(st.openai) IN
         IF g.ok
         THEN [NoReply EXCEPT !.done = TRUE, !.text = g.text, !.w = w]
         ELSE ReplyOfGeminiWithFailover(st, w)
    ELSE ReplyOfGeminiWithFailover(st, w)

\* _generate_gemini_stream_with_failover: the loop over `models` from
\* position i; f is what generate_reply_stream has yielded so far.
RECURSIVE FragmentsOfGeminiStream(_, _, _, _)
FragmentsOfGeminiStream(st, models, i, f) ==
    IF i > Len(models)
    THEN [f EXCEPT !.done = TRUE]
    ELSE LET m == models[i]
             g == GenerateStream(st.gemini[m])
             f1 == [f EXCEPT !.frags = @ \o g.frags, !.tried = Append(@, m)]
         IN IF g.ok
            THEN [f1 EXCEPT !.done = TRUE, !.won = m, !.w = m]
            ELSE FragmentsOfGeminiStream(st, models, i + 1, f1)

\* generate_reply_stream.
FragmentsOfGenerateReplyStream(st, priority, w) ==
    LET f == [NoFragments EXCEPT !.w = w] IN
    IF priority = "gpt"
    THEN LET g == GenerateStream(st.openai)
             f1 == [f EXCEPT !.frags = g.frags, !.primary_frags = g.frags]
         IN IF g.ok
            THEN [f1 EXCEPT !.done = TRUE, !.primary = "ok"]
            ELSE FragmentsOfGeminiStream(st, StreamModels(w), 1,
                                         [f1 EXCEPT !.primary = "fail"])
    ELSE FragmentsOfGeminiStream(st, StreamModels(w), 1, f)

\* stream_generator: full_text, the concatenation of the text events.
FullText(f) == Concat(f.frags)

--------------------------------------------------------------------------
\* transcribe_and_chat around the turn.

\* raise HTTPException(status_code=400, ...) outside the try block: `temp` says
\* whether temp_path is left behind.
ClientError(r, temp) ==
    [r EXCEPT !.pc = "finished", !.status = 400, !.temp_file = temp]

\* Faulty variant of TranscribeAndChatEntry: the size of the upload is not
\* checked and the empty file goes to transcription.
TranscribeAndChatEntry_NoEmptyCheck(r, type_ok, data_empty, history_ok) ==
    LET r0 == [r EXCEPT !.upload_empty = data_empty] IN
    IF ~type_ok THEN ClientError(r0, FALSE)
    ELSE IF ~history_ok THEN ClientError(r0, TRUE)
    ELSE [r0 EXCEPT !.pc = "stt", !.temp_file = TRUE, !.stt_calls = @ + 1]

\* transcribe_and_chat up to `await stt_service.transcribe(...)`: the content
\* type is checked, the upload is written to temp_path, an empty file is
\* unlinked and refused, history_json is parsed.
TranscribeAndChatEntry(r, type_ok, data_empty, history_ok) ==
    LET r0 == [r EXCEPT !.upload_empty = data_empty] IN
    IF ~type_ok THEN ClientError(r0, FALSE)
    ELSE IF data_empty THEN ClientError(r0, FALSE)
    ELSE IF ~history_ok THEN ClientError(r0, TRUE)
    ELSE [r0 EXCEPT !.pc = "stt", !.temp_file = TRUE, !.stt_calls = @ + 1]

\* What the recognizer (the remote worker or the local model) makes of the
\* audio.
RecognizedTexts == {<<>>, <<" ">>, <<"x">>}

\* _transcribe_remote: result.get("text", "").strip() is returned as it is, the
\* empty string included.
TranscribeRemote(text) == IF StripWs(text) = <<>> THEN "empty" ELSE "text"

\* _transcribe_sync: the stripped text is returned, or RuntimeError("Speech was
\* not recognized. ...") is raised when it is empty.
TranscribeSync(text) == IF StripWs(text) = <<>> THEN "RuntimeError" ELSE "text"

\* What `await stt_service.transcribe(...)` can give: a text, the empty string
\* or the class of the exception raised (the worker call, the model or its
\* construction failing).
TranscribeOutcomes ==
    IF whisper_use_remote
    THEN {TranscribeRemote(t) : t \in RecognizedTexts} \cup {"Exception"}
    ELSE {TranscribeSync(t) : t \in RecognizedTexts} \cup {"Exception"}

--------------------------------------------------------------------------
\* The actions.

Outcomes == {"ok", "fail"}

NewCall(kind, sp, ga) ==
    [IdleCall EXCEPT !.kind = kind, !.speaker_id = sp, !.generate_audio = ga,
                     !.user_text = IF kind = "transcribe_and_chat"
                                   THEN "unset" ELSE "text"]

\* POST /assistant/chat, with the payload drawn from SP and GA.
ChatWith(c, SP, GA) ==
    /\ call[c].pc = "idle"
    /\ \E sp \in SP, ga \in GA :
         LET s == GenerateReply(NewCall("chat", sp, ga), working_gemini_model)
         IN Step(c, s.r, s.w)

\* POST /assistant/chat-stream, with the payload drawn from SP and GA.
ChatStreamWith(c, SP, GA) ==
    /\ call[c].pc = "idle"
    /\ \E sp \in SP, ga \in GA :
         LET s == GenerateReplyStream(NewCall("chat_stream", sp, ga),
                                      working_gemini_model)
         IN Step(c, s.r, s.w)

Chat(c) == ChatWith(c, SpeakerInputs, BOOLEAN)

ChatStream(c) == ChatStreamWith(c, SpeakerInputs, BOOLEAN)

\* POST /assistant/transcribe-and-chat
TranscribeAndChat(c) ==
    /\ call[c].pc = "idle"
    /\ \E sp \in SpeakerInputs, ga \in BOOLEAN,
          type_ok \in BOOLEAN, data_empty \in BOOLEAN, history_ok \in BOOLEAN :
         Step(c,
              TranscribeAndChatEntry(NewCall("transcribe_and_chat", sp, ga),
                                     type_ok, data_empty, history_ok),
              working_gemini_model)

\* stt_service.transcribe returns: the turn starts with its text, or the
\* exception leaves the try block.
TranscribeReturns(c) ==
    /\ call[c].pc = "stt"
    /\ \E res \in TranscribeOutcomes :
         LET s == IF res \in {"text", "empty"}
                  THEN GenerateReply([call[c] EXCEPT !.user_text = res],
                                     working_gemini_model)
                  ELSE Res(EndpointRaises(call[c], res), working_gemini_model)
         IN Step(c, s.r, s.w)

OpenAICallReturns(c) ==
    /\ call[c].pc = "openai"
    /\ \E res \in Outcomes :
         LET s == OpenAIReturns(call[c], res, working_gemini_model)
         IN Step(c, s.r, s.w)

RememberedCallReturns(c) ==
    /\ call[c].pc = "gemini_remembered"
    /\ \E res \in Outcomes :
         LET s == GeminiRememberedReturns(call[c], res, working_gemini_model)
         IN Step(c, s.r, s.w)

ListCallReturns(c) ==
    /\ call[c].pc = "gemini_list"
    /\ \E res \in Outcomes :
         LET s == GeminiListReturns(call[c], res, working_gemini_model)
         IN Step(c, s.r, s.w)

StreamChunk(c) ==
    /\ call[c].pc \in {"openai_stream", "gemini_stream"}
    /\ call[c].frags < MaxFrags
    /\ Step(c, Chunk(call[c]), working_gemini_model)

OpenAIStreamReturns(c) ==
    /\ call[c].pc = "openai_stream"
    /\ \E res \in Outcomes :
         LET s == OpenAIStreamEnds(call[c], res, working_gemini_model)
         IN Step(c, s.r, s.w)

GeminiStreamReturns(c) ==
    /\ call[c].pc = "gemini_stream"
    /\ \E res \in Outcomes :
         LET s == GeminiStreamEnds(call[c], res, working_gemini_model)
         IN Step(c, s.r, s.w)

SynthesizeReturns(c) ==
    /\ call[c].pc = "synthesize"
    /\ \E res \in SynthesizeOutcomes(call[c].speaker_id) :
         Step(c,
              IF call[c].kind = "chat_stream"
              THEN StreamSynthesizeReturns(call[c], res)
              ELSE FlowSynthesizeReturns(call[c], res),
              working_gemini_model)

\* The response has been delivered; the slot is free for the next request.
Reset(c) ==
    /\ call[c].pc = "finished"
    /\ Step(c, IdleCall, working_gemini_model)

\* The steps of the LLM service under request c.
LLMStep(c) ==
    \/ OpenAICallReturns(c)
    \/ RememberedCallReturns(c)
    \/ ListCallReturns(c)
    \/ StreamChunk(c)
    \/ OpenAIStreamReturns(c)
    \/ GeminiStreamReturns(c)

\* Requests served one after the other, with every payload: the turn.
Next ==
    \/ Chat(1)
    \/ ChatStream(1)
    \/ TranscribeAndChat(1)
    \/ TranscribeReturns(1)
    \/ LLMStep(1)
    \/ SynthesizeReturns(1)
    \/ Reset(1)

Spec == Init /\ [][Next]_vars

\* Requests that overlap in time on one LLMService, none asking for audio:
\* the interleavings of atomic and streaming calls.
NextConcurrent ==
    \E c \in Calls :
        \/ ChatWith(c, {NoSpeaker}, {FALSE})
        \/ ChatStreamWith(c, {NoSpeaker}, {FALSE})
        \/ LLMStep(c)
        \/ Reset(c)

SpecConcurrent == Init /\ [][NextConcurrent]_vars

--------------------------------------------------------------------------
\* The two modes of the LLM service on identical inputs: one stub, one
\* ai_priority, one remembered model at entry.

EquivInit ==
    /\ ai_priority \in {"gpt", "gemini"}
    /\ whisper_use_remote = TRUE
    /\ TurnInit
    /\ StoreInit
    /\ SanIdle
    /\ EnginesInit
    /\ SynthIdle
    /\ RequestIdle
    /\ stub \in Stubs
    /\ \E w0 \in {None} \cup Range(GeminiModels) :
         equiv = [w0 |-> w0, atomic |-> NoReply, stream |-> NoFragments]

\* await llm_service.generate_reply(...) on the stub.
RunGenerateReply ==
    /\ ~equiv.atomic.done
    /\ equiv' = [equiv EXCEPT
                   !.atomic = ReplyOfGenerateReply(stub, ai_priority, equiv.w0)]
    /\ UNCHANGED <<turnVars, stub, storeVars, san, engineVars, synth, request>>

\* async for chunk in llm_service.generate_reply_stream(...) on the stub.
RunGenerateReplyStream ==
    /\ ~equiv.stream.done
    /\ equiv' = [equiv EXCEPT
                   !.stream = FragmentsOfGenerateReplyStream(stub, ai_priority,
                                                             equiv.w0)]
    /\ UNCHANGED <<turnVars, stub, storeVars, san, engineVars, synth, request>>

NextEquiv ==
    \/ RunGenerateReply
    \/ RunGenerateReplyStream

SpecEquiv == EquivInit /\ [][NextEquiv]_vars

--------------------------------------------------------------------------
\* VoiceService.store_reference_audio and list_speakers, under the voice
\* router.

\* The suffixes of the file names sent: none, and three as written.
FileNames == {"", ".wav", ".MP3", ".txt"}

\* The uploads sent: the empty payload and two recordings.
Payloads == {"", "p1", "p2"}

\* str.lower() on the suffixes above.
Lower(suffix) == IF suffix = ".MP3" THEN ".mp3" ELSE suffix

\* suffix = Path(filename).suffix.lower() or ".wav"
SuffixOf(filename) == IF Lower(filename) = "" THEN ".wav" ELSE Lower(filename)

SupportedSuffixes == {".wav", ".mp3", ".m4a", ".ogg", ".flac"}

\* speaker_dir.mkdir(parents=True, exist_ok=True)
Mkdir(fs, d) == [fs EXCEPT !.dirs = @ \cup {d}]

\* for old_file in speaker_dir.glob("reference.*"): old_file.unlink(...)
UnlinkReferences(fs, d) == [fs EXCEPT !.files = {f \in @ : f.dir # d}]

\* target.write_bytes(data): the file is created or its content replaced.
WriteBytes(fs, d, suffix, data) ==
    [fs EXCEPT !.files =
        {f \in @ : ~(f.dir = d /\ f.suffix = suffix)}
        \cup {[dir |-> d, suffix |-> suffix, data |-> data]}]

\* The reference files of a speaker directory.
References(fs, d) == {f \in fs.files : f.dir = d}

\* raise HTTPException(status_code=400, ...)
EnrollRefused(e, detail) ==
    [e EXCEPT !.pc = "finished", !.status = 400, !.detail = detail]

StoreRes(e, fs) == [e |-> e, fs |-> fs]

\* Faulty variant of StoreReferenceAudio: the directory is made and cleared
\* of its references before the suffix is checked.
StoreReferenceAudio_ChecksSuffixLast(e, fs) ==
    LET suffix == SuffixOf(e.filename)
        d == Sanitize(e.speaker_id)
    IN IF d = <<>>
       THEN StoreRes(EnrollRefused(e, "speaker_id"), fs)
       ELSE IF suffix \notin SupportedSuffixes
       THEN StoreRes(EnrollRefused(e, "suffix"),
                     UnlinkReferences(Mkdir(fs, d), d))
       ELSE StoreRes([e EXCEPT !.pc = "writing", !.dir = d, !.suffix = suffix],
                     UnlinkReferences(Mkdir(fs, d), d))

\* store_reference_audio up to `await asyncio.to_thread(...)`: the suffix is
\* checked, the identity sanitized (either may raise ValueError, which
\* enroll_voice turns into 400), the directory made and its references
\* unlinked.
StoreReferenceAudio(e, fs) ==
    LET suffix == SuffixOf(e.filename)
        d == Sanitize(e.speaker_id)
    IN IF suffix \notin SupportedSuffixes
       THEN StoreRes(EnrollRefused(e, "suffix"), fs)
       ELSE IF d = <<>>
       THEN StoreRes(EnrollRefused(e, "speaker_id"), fs)
       ELSE StoreRes([e EXCEPT !.pc = "writing", !.dir = d, !.suffix = suffix],
                     UnlinkReferences(Mkdir(fs, d), d))

\* enroll_voice up to the await inside store_reference_audio.
EnrollVoiceEntry(e, type_ok, fs) ==
    IF ~type_ok THEN StoreRes(EnrollRefused(e, "content_type"), fs)
    ELSE IF e.data = "" THEN StoreRes(EnrollRefused(e, "empty"), fs)
    ELSE StoreReferenceAudio(e, fs)

\* The order of str: by character code, a proper prefix first.
CharCode ==
    [ch \in SafeChars \cup Chars |->
        CASE ch = "!" -> 33 [] ch = "-" -> 45 [] ch = "A" -> 65
          [] ch = "_" -> 95 [] ch = "a" -> 97 [] ch = "b" -> 98
          [] ch = "i" -> 105 [] ch = "l" -> 108 [] ch = "y" -> 121]

RECURSIVE NameLess(_, _)
NameLess(x, y) ==
    IF y = <<>> THEN FALSE
    ELSE IF x = <<>> THEN TRUE
    ELSE IF Head(x) # Head(y) THEN CharCode[Head(x)] < CharCode[Head(y)]
    ELSE NameLess(Tail(x), Tail(y))

\* sorted(...)
RECURSIVE SortedNames(_)
SortedNames(S) ==
    IF S = {} THEN <<>>
    ELSE LET m == CHOOSE x \in S : \A y \in S : x = y \/ NameLess(x, y)
         IN <<m>> \o SortedNames(S \ {m})

\* VoiceService.list_speakers: the directories in sorted order, each with
\* whether it holds a reference file.
ListSpeakersOf(fs) ==
    LET names == SortedNames(fs.dirs) IN
    [i \in 1..Len(names) |->
        [speaker_id |-> names[i],
         has_reference |-> References(fs, names[i]) # {}]]

\* POST /voice/enroll, with the form drawn from IDS, NAMES and DATA.
EnrollVoiceWith(t, IDS, NAMES, DATA) ==
    /\ enroll[t].pc = "idle"
    /\ \E id \in IDS, fn \in NAMES, data \in DATA, type_ok \in BOOLEAN :
         LET e == [IdleEnroll EXCEPT !.speaker_id = id, !.filename = fn,
                                     !.data = data]
             s == EnrollVoiceEntry(e, type_ok, voices_dir)
         IN /\ enroll' = [enroll EXCEPT ![t] = s.e]
            /\ voices_dir' = s.fs
    /\ UNCHANGED <<listing, last_enrolled, turnVars, equivVars, san, engineVars, synth, request>>

EnrollVoice(t) == EnrollVoiceWith(t, EnrollSpeakers, FileNames, Payloads)

\* The worker thread of asyncio.to_thread runs target.write_bytes(data).
WriteReference(t) ==
    /\ enroll[t].pc = "writing"
    /\ voices_dir' = WriteBytes(voices_dir, enroll[t].dir, enroll[t].suffix,
                                enroll[t].data)
    /\ enroll' = [enroll EXCEPT ![t].pc = "written"]
    /\ UNCHANGED <<listing, last_enrolled, turnVars, equivVars, san, engineVars, synth, request>>

\* The await returns: store_reference_audio returns target and enroll_voice
\* answers with VoiceEnrollResponse.
EnrollReturns(t) ==
    /\ enroll[t].pc = "written"
    /\ enroll' = [enroll EXCEPT ![t].pc = "finished", ![t].status = 200]
    /\ last_enrolled' =
         [last_enrolled EXCEPT ![enroll[t].dir] =
             [dir |-> enroll[t].dir, suffix |-> enroll[t].suffix,
              data |-> enroll[t].data]]
    /\ UNCHANGED <<voices_dir, listing, turnVars, equivVars, san, engineVars, synth, request>>

\* The response has been delivered; the slot is free for the next request.
EnrollReset(t) ==
    /\ enroll[t].pc = "finished"
    /\ enroll' = [enroll EXCEPT ![t] = IdleEnroll]
    /\ UNCHANGED <<voices_dir, listing, last_enrolled, turnVars, equivVars, san, engineVars, synth, request>>

\* GET /voice/speakers
ListSpeakers ==
    /\ listing.pc = "none"
    /\ listing' = [pc |-> "returned", speakers |-> ListSpeakersOf(voices_dir)]
    /\ UNCHANGED <<voices_dir, enroll, last_enrolled, turnVars, equivVars, san, engineVars, synth, request>>

\* The listing has been delivered.
ListingReset ==
    /\ listing.pc = "returned"
    /\ listing' = NoListing
    /\ UNCHANGED <<voices_dir, enroll, last_enrolled, turnVars, equivVars, san, engineVars, synth, request>>

\* The services after construction, with the default settings.
ServicesInit ==
    /\ ai_priority = "gpt"
    /\ whisper_use_remote = TRUE
    /\ TurnInit
    /\ EquivIdle
    /\ StoreInit
    /\ SanIdle
    /\ EnginesInit
    /\ SynthIdle
    /\ RequestIdle

\* Voice requests served one after the other, with every form.
NextStore ==
    \/ EnrollVoice(1)
    \/ WriteReference(1)
    \/ EnrollReturns(1)
    \/ EnrollReset(1)
    \/ enroll[1].pc \in {"idle", "finished"} /\ ListSpeakers
    \/ ListingReset

SpecStore == ServicesInit /\ [][NextStore]_vars

\* Enroll requests that overlap in time, with valid identities and supported
\* suffixes, and listings.
NextStoreConcurrent ==
    \/ \E t \in Enrolls :
          \/ EnrollVoiceWith(t, {<<"a">>, <<"b">>}, {".wav", ".MP3"}, {"p1"})
          \/ WriteReference(t)
          \/ EnrollReturns(t)
          \/ EnrollReset(t)
    \/ ListSpeakers
    \/ ListingReset

SpecStoreConcurrent == ServicesInit /\ [][NextStoreConcurrent]_vars

--------------------------------------------------------------------------
\* VoiceService._sanitize_speaker_id on every identity of bounded length.

SanInit ==
    /\ ai_priority = "gpt"
    /\ whisper_use_remote = TRUE
    /\ TurnInit
    /\ EquivIdle
    /\ StoreInit
    /\ EnginesInit
    /\ SynthIdle
    /\ RequestIdle
    /\ \E id \in SeqsUpTo(Chars, MaxLen) :
         san = [pc |-> "input", speaker_id |-> id, cleaned |-> <<>>,
                again |-> <<>>, raised |-> FALSE]

\* _sanitize_speaker_id(speaker_id): the cleaned identifier is returned, or
\* ValueError("Invalid speaker_id") is raised when it is empty.
SanitizeSpeakerId ==
    /\ san.pc = "input"
    /\ san' = [san EXCEPT !.pc = "sanitized",
                          !.cleaned = Sanitize(san.speaker_id),
                          !.raised = (Sanitize(san.speaker_id) = <<>>)]
    /\ UNCHANGED <<turnVars, equivVars, storeVars, engineVars, synth, request>>

\* _sanitize_speaker_id on the identifier it returned, as _speaker_dir does
\* with the safe_speaker_id that synthesize hands on.
SanitizeAgain ==
    /\ san.pc = "sanitized"
    /\ ~san.raised
    /\ san' = [san EXCEPT !.pc = "again", !.again = Sanitize(san.cleaned)]
    /\ UNCHANGED <<turnVars, equivVars, storeVars, engineVars, synth, request>>

NextSanitize ==
    \/ SanitizeSpeakerId
    \/ SanitizeAgain

SpecSanitize == SanInit /\ [][NextSanitize]_vars

--------------------------------------------------------------------------
\* STTService._get_model, VoiceService._get_tts and VoiceService._get_qwen_tts,
\* called from the worker threads of asyncio.to_thread (_transcribe_sync,
\* _synthesize_sync) and from the event-loop thread.  A step is one read or
\* write of the attribute, one lock operation or one stage of construction.

\* `if self._tts is not None:` before the lock is taken.
FastPathHit(en) == en.obj # None

\* Faulty variant of LockedPathHit: no second check inside the lock.
LockedPathHit_NoSecondCheck(en) == FALSE

\* `if self._tts is not None:` inside `with self._tts_lock:`.
LockedPathHit(en) == en.obj # None

\* The lock is released if thread t holds it: the exit of the with block.
Release(en, t) == IF en.lock = t THEN [en EXCEPT !.lock = NoThread] ELSE en

\* A thread calls the getter of engine e.
GetEngine(t, e) ==
    /\ thread[t].pc = "idle"
    /\ thread' = [thread EXCEPT ![t] = [pc |-> "fast_check", target |-> e,
                                        got |-> None]]
    /\ UNCHANGED <<engine, turnVars, equivVars, storeVars, san, synth, request>>

\* The unlocked check: the engine is there and is returned, or the thread
\* goes on to the lock (_get_tts, _get_qwen_tts) or, where there is none
\* (_get_model), straight to the construction.
FastCheck(t) ==
    LET e == thread[t].target IN
    /\ thread[t].pc = "fast_check"
    /\ thread' = [thread EXCEPT ![t].pc =
                     IF FastPathHit(engine[e]) THEN "return"
                     ELSE IF HasLock(e) THEN "acquire"
                     ELSE "construct"]
    /\ UNCHANGED <<engine, turnVars, equivVars, storeVars, san, synth, request>>

\* with self._tts_lock: the thread waits until the lock is free.
Acquire(t) ==
    LET e == thread[t].target IN
    /\ thread[t].pc = "acquire"
    /\ engine[e].lock = NoThread
    /\ engine' = [engine EXCEPT ![e].lock = t]
    /\ thread' = [thread EXCEPT ![t].pc = "locked_check"]
    /\ UNCHANGED <<turnVars, equivVars, storeVars, san, synth, request>>

\* The check inside the lock: the engine is there and is returned, the with
\* block releasing the lock, or the thread constructs it.
LockedCheck(t) ==
    LET e == thread[t].target IN
    /\ thread[t].pc = "locked_check"
    /\ IF LockedPathHit(engine[e])
       THEN /\ engine' = [engine EXCEPT
                            ![e] = [Release(@, t) EXCEPT
                                      !.handed = @ \cup {engine[e].obj}]]
            /\ thread' = [thread EXCEPT ![t].pc = "returned",
                                        ![t].got = engine[e].obj]
       ELSE /\ thread' = [thread EXCEPT ![t].pc = "construct"]
            /\ UNCHANGED engine
    /\ UNCHANGED <<turnVars, equivVars, storeVars, san, synth, request>>

\* The import of the engine's package: it succeeds and the constructor is
\* called, or it raises (RuntimeError in _get_tts and _get_model) and the
\* with block releases the lock.
BeginConstruct(t) ==
    LET e == thread[t].target IN
    /\ thread[t].pc = "construct"
    /\ \E ok \in BOOLEAN :
         IF ok
         THEN /\ thread' = [thread EXCEPT ![t].pc = "constructing"]
              /\ UNCHANGED engine
         ELSE /\ thread' = [thread EXCEPT ![t].pc = "raised"]
              /\ engine' = [engine EXCEPT ![e] = Release(@, t)]
    /\ UNCHANGED <<turnVars, equivVars, storeVars, san, synth, request>>

\* The constructor returns and the attribute is assigned the new engine, or
\* it raises and the with block releases the lock.
EndConstruct(t) ==
    LET e == thread[t].target IN
    /\ thread[t].pc = "constructing"
    /\ \E ok \in BOOLEAN :
         IF ok
         THEN /\ engine' = [engine EXCEPT ![e].built = @ + 1,
                                          ![e].obj = engine[e].built + 1]
              /\ thread' = [thread EXCEPT ![t].pc =
                               IF HasLock(e) THEN "leave" ELSE "return"]
         ELSE /\ thread' = [thread EXCEPT ![t].pc = "raised"]
              /\ engine' = [engine EXCEPT ![e] = Release(@, t)]
    /\ UNCHANGED <<turnVars, equivVars, storeVars, san, synth, request>>

\* The end of the with block: the lock is released.
Leave(t) ==
    LET e == thread[t].target IN
    /\ thread[t].pc = "leave"
    /\ engine' = [engine EXCEPT ![e] = Release(@, t)]
    /\ thread' = [thread EXCEPT ![t].pc = "return"]
    /\ UNCHANGED <<turnVars, equivVars, storeVars, san, synth, request>>

\* return self._tts / self._qwen_tts / self._model: the attribute is read.
Return(t) ==
    LET e == thread[t].target IN
    /\ thread[t].pc = "return"
    /\ engine' = [engine EXCEPT ![e].handed = @ \cup {engine[e].obj}]
    /\ thread' = [thread EXCEPT ![t].pc = "returned", ![t].got = engine[e].obj]
    /\ UNCHANGED <<turnVars, equivVars, storeVars, san, synth, request>>

\* The caller goes on with the engine or with the exception.
ThreadDone(t) ==
    /\ thread[t].pc \in {"returned", "raised"}
    /\ thread' = [thread EXCEPT ![t] = IdleThread]
    /\ UNCHANGED <<engine, turnVars, equivVars, storeVars, san, synth, request>>

NextEngines ==
    \E t \in Threads :
        \/ \E e \in EngineNames : GetEngine(t, e)
        \/ FastCheck(t)
        \/ Acquire(t)
        \/ LockedCheck(t)
        \/ BeginConstruct(t)
        \/ EndConstruct(t)
        \/ Leave(t)
        \/ Return(t)
        \/ ThreadDone(t)

SpecEngines == ServicesInit /\ [][NextEngines]_vars

--------------------------------------------------------------------------
\* VoiceService.synthesize.  Each await of it is a step: the remote worker,
\* the local Qwen engine, XTTS, Gemini TTS, the OpenVoice subprocess, and the
\* worker thread of _synthesize_sync, which first looks the reference up and
\* then runs the engine.  What an engine or a worker gives is drawn from the
\* outcomes it can give; an engine that cannot read its reference raises.

TtsModes == {"qwen_tts", "aliya_xtts", "gemini_openvoice", "xtts"}

\* speaker_id.lower() == "aliya"
IsAliya(id) == LowerId(id) = Aliya

\* The call has run a stage, which gave res.
Stage(s, stage, res) ==
    [s EXCEPT !.log = Append(@, [stage |-> stage, res |-> res])]

\* synthesize returns output_path (result "ok") or raises.
SynthFinished(s, result) == [s EXCEPT !.pc = "finished", !.result = result]

\* synthesize up to its first await: the branch on the speaker and on
\* settings.tts_mode; the default branch sanitizes the identity (ValueError)
\* and starts _synthesize_sync on a worker thread.
SynthesizeEntry(s) ==
    IF IsAliya(s.speaker_id) /\ s.tts_mode = "qwen_tts"
    THEN IF s.remote_worker THEN [s EXCEPT !.pc = "qwen_remote"]
         ELSE [s EXCEPT !.pc = "qwen_local"]
    ELSE IF IsAliya(s.speaker_id) /\ s.tts_mode = "aliya_xtts"
    THEN [s EXCEPT !.pc = "xtts"]
    ELSE IF IsAliya(s.speaker_id) /\ s.tts_mode = "gemini_openvoice"
    THEN [s EXCEPT !.pc = "gemini_tts"]
    ELSE LET d == Sanitize(s.speaker_id) IN
         IF d = <<>> THEN SynthFinished(s, "ValueError")
         ELSE [s EXCEPT !.pc = "reference", !.dir = d]

\* _synthesize_qwen_remote: reference_audio.open("rb") raises
\* FileNotFoundError when the file is missing; otherwise the worker answers
\* 200 and the output is written, or it answers another status
\* (RuntimeError), or the request or the write raises.
QwenRemoteOutcomes(s) ==
    IF s.aliya_reference THEN {"ok", "RuntimeError", "Exception"}
    ELSE {"FileNotFoundError"}

\* An engine run on a reference: tts.tts_to_file / tts.generate.  The getter
\* raises when the engine is not installed (RuntimeError in _get_tts), the
\* engine raises when it fails, and it cannot succeed without its reference.
EngineOutcomes(reference_exists) ==
    IF reference_exists THEN {"ok", "RuntimeError", "Exception"}
    ELSE {"FileNotFoundError", "RuntimeError", "Exception"}

\* _generate_gemini_tts: the base audio, or raise_for_status / a malformed
\* answer (Exception), or RuntimeError("Gemini TTS failed to return ...").
GeminiTtsOutcomes == {"ok", "RuntimeError", "Exception"}

\* _convert_voice_openvoice: create_subprocess_exec raises FileNotFoundError
\* when the interpreter is missing; a return code other than 0 is
\* RuntimeError; the conversion cannot succeed without its reference.
OpenVoiceOutcomes(reference_exists) ==
    {"FileNotFoundError", "RuntimeError"}
    \cup (IF reference_exists THEN {"ok"} ELSE {})

\* Faulty variant of QwenRemoteResult: a failure of the remote worker is the
\* failure of synthesize.
QwenRemoteResult_NoFallback(s, res) ==
    SynthFinished(Stage(s, "qwen_remote", res), res)

\* try: await self._synthesize_qwen_remote(...); return output_path
\* except Exception: print(...), then the local engine.
QwenRemoteResult(s, res) ==
    LET s1 == Stage(s, "qwen_remote", res) IN
    IF res = "ok" THEN SynthFinished(s1, "ok")
    ELSE [s1 EXCEPT !.pc = "qwen_local"]

\* await self._synthesize_qwen_local(...); return output_path
QwenLocalResult(s, res) == SynthFinished(Stage(s, "qwen_local", res), res)

\* tts = self._get_tts(); await asyncio.to_thread(tts.tts_to_file ...)
XttsResult(s, res) == SynthFinished(Stage(s, "xtts", res), res)

\* Faulty variant of GeminiTtsResult: the conversion is started whatever the
\* base generation gave.
GeminiTtsResult_ConvertsAnyway(s, res) ==
    [Stage(s, "gemini_tts", res) EXCEPT !.pc = "openvoice"]

\* base_audio = await self._generate_gemini_tts(text)
GeminiTtsResult(s, res) ==
    LET s1 == Stage(s, "gemini_tts", res) IN
    IF res = "ok" THEN [s1 EXCEPT !.pc = "openvoice"]
    ELSE SynthFinished(s1, res)

\* await self._convert_voice_openvoice(...); return output_path
OpenVoiceResult(s, res) == SynthFinished(Stage(s, "openvoice", res), res)

\* The order of the names reference.<suffix> under sorted().
SuffixRank(suffix) ==
    CASE suffix = ".flac" -> 1 [] suffix = ".m4a" -> 2 [] suffix = ".mp3" -> 3
      [] suffix = ".ogg" -> 4 [] suffix = ".wav" -> 5

\* The first file of sorted(speaker_dir.glob("reference.*")).
FirstReference(fs, d) ==
    CHOOSE f \in References(fs, d) :
        \A g \in References(fs, d) :
            SuffixRank(f.suffix) <= SuffixRank(g.suffix)

\* _get_reference_audio: the first reference file of the speaker directory,
\* or FileNotFoundError("Voice profile not found. ...").
GetReferenceAudio(s, fs) ==
    IF References(fs, s.dir) = {}
    THEN SynthFinished(Stage(s, "reference", "FileNotFoundError"),
                       "FileNotFoundError")
    ELSE [Stage(s, "reference", "ok") EXCEPT
             !.pc = "tts", !.reference = FirstReference(fs, s.dir)]

\* tts = self._get_tts(); tts.tts_to_file(...) in _synthesize_sync
TtsResult(s, res) == SynthFinished(Stage(s, "tts", res), res)

\* await voice_service.synthesize(text, speaker_id, language)
SynthesizeWith(IDS) ==
    /\ synth.pc = "idle"
    /\ \E id \in IDS : synth' = SynthesizeEntry([synth EXCEPT !.speaker_id = id])
    /\ UNCHANGED <<turnVars, equivVars, storeVars, san, engineVars, request>>

Synthesize == SynthesizeWith(SynthSpeakers)

QwenRemoteReturns ==
    /\ synth.pc = "qwen_remote"
    /\ \E res \in QwenRemoteOutcomes(synth) : synth' = QwenRemoteResult(synth, res)
    /\ UNCHANGED <<turnVars, equivVars, storeVars, san, engineVars, request>>

QwenLocalReturns ==
    /\ synth.pc = "qwen_local"
    /\ \E res \in EngineOutcomes(synth.aliya_reference) :
         synth' = QwenLocalResult(synth, res)
    /\ UNCHANGED <<turnVars, equivVars, storeVars, san, engineVars, request>>

XttsReturns ==
    /\ synth.pc = "xtts"
    /\ \E res \in EngineOutcomes(synth.aliya_reference) :
         synth' = XttsResult(synth, res)
    /\ UNCHANGED <<turnVars, equivVars, storeVars, san, engineVars, request>>

GeminiTtsReturns ==
    /\ synth.pc = "gemini_tts"
    /\ \E res \in GeminiTtsOutcomes : synth' = GeminiTtsResult(synth, res)
    /\ UNCHANGED <<turnVars, equivVars, storeVars, san, engineVars, request>>

OpenVoiceReturns ==
    /\ synth.pc = "openvoice"
    /\ \E res \in OpenVoiceOutcomes(synth.aliya_reference) :
         synth' = OpenVoiceResult(synth, res)
    /\ UNCHANGED <<turnVars, equivVars, storeVars, san, engineVars, request>>

\* The worker thread of _synthesize_sync looks the reference up.
ReferenceLookup ==
    /\ synth.pc = "reference"
    /\ synth' = GetReferenceAudio(synth, voices_dir)
    /\ UNCHANGED <<turnVars, equivVars, storeVars, san, engineVars, request>>

\* The worker thread of _synthesize_sync runs the engine on the reference.
TtsReturns ==
    /\ synth.pc = "tts"
    /\ \E res \in EngineOutcomes(TRUE) : synth' = TtsResult(synth, res)
    /\ UNCHANGED <<turnVars, equivVars, storeVars, san, engineVars, request>>

\* The caller has the result; the next call of synthesize can start.
SynthReset ==
    /\ synth.pc = "finished"
    /\ synth' = [IdleSynth EXCEPT !.tts_mode = synth.tts_mode,
                                  !.remote_worker = synth.remote_worker,
                                  !.aliya_reference = synth.aliya_reference]
    /\ UNCHANGED <<turnVars, equivVars, storeVars, san, engineVars, request>>

\* A speaker store with a reference for each of the given directories.
Enrolled(D) ==
    [dirs |-> D,
     files |-> {[dir |-> d, suffix |-> ".wav", data |-> "p1"] : d \in D}]

\* The service under every setting synthesize reads, with no speaker
\* enrolled, with speaker "a" enrolled, and with "a" and "aliya" enrolled.
SynthInit ==
    /\ ai_priority = "gpt"
    /\ whisper_use_remote = TRUE
    /\ TurnInit
    /\ EquivIdle
    /\ SanIdle
    /\ EnginesInit
    /\ enroll = [t \in Enrolls |-> IdleEnroll]
    /\ listing = NoListing
    /\ last_enrolled = [d \in SpeakerDirs |-> NoFile]
    /\ voices_dir \in {NoVoices, Enrolled({<<"a">>}), Enrolled({<<"a">>, Aliya})}
    /\ RequestIdle
    /\ \E mode \in TtsModes, remote \in BOOLEAN, ref \in BOOLEAN :
         synth = [IdleSynth EXCEPT !.tts_mode = mode,
                                   !.remote_worker = remote,
                                   !.aliya_reference = ref]

NextSynth ==
    \/ Synthesize
    \/ QwenRemoteReturns
    \/ QwenLocalReturns
    \/ XttsReturns
    \/ GeminiTtsReturns
    \/ OpenVoiceReturns
    \/ ReferenceLookup
    \/ TtsReturns
    \/ SynthReset

SpecSynth == SynthInit /\ [][NextSynth]_vars

\* Enroll requests for one speaker that overlap in time, and synthesis for
\* that speaker by the default branch.
NextReference ==
    \/ \E t \in Enrolls :
          \/ EnrollVoiceWith(t, {<<"a">>}, {".wav", ".MP3"}, {"p1", "p2"})
          \/ WriteReference(t)
          \/ EnrollReturns(t)
          \/ EnrollReset(t)
    \/ SynthesizeWith({<<"a">>})
    \/ ReferenceLookup
    \/ TtsReturns
    \/ SynthReset

SpecReference == ServicesInit /\ [][NextReference]_vars

--------------------------------------------------------------------------
\* The keyword arguments of client.chat.completions.create, by mode.  Model
\* names are strings, modelled as sequences of characters and put together
\* from the parts below, so that "o1", "o3" and "gpt-5" occur at the start,
\* inside, at the end, across two parts, and not at all.

NameParts ==
    { <<"o">>, <<"1">>, <<"3">>, <<"g", "p", "t", "-">>, <<"5">>, <<"4">> }

\* settings.openai_model
OpenAIModels ==
    {Concat(parts) : parts \in SeqsUpTo(NameParts, MaxLen)} \ {<<>>}

\* str.startswith(prefix)
StartsWith(s, prefix) ==
    /\ Len(prefix) <= Len(s)
    /\ SubSeq(s, 1, Len(prefix)) = prefix

\* `sub in s`
Contains(s, sub) ==
    \E i \in 0..(Len(s) - Len(sub)) : SubSeq(s, i + 1, i + Len(sub)) = sub

\* is_reasoning = model.startswith("o1") or model.startswith("o3")
\*                or "gpt-5" in model
IsReasoning(model) ==
    \/ StartsWith(model, <<"o", "1">>)
    \/ StartsWith(model, <<"o", "3">>)
    \/ Contains(model, <<"g", "p", "t", "-", "5">>)

\* The fields class Settings declares, among those the OpenAI path reads.
\* extra="ignore" drops every other key of the environment, and reading an
\* attribute that is not a field raises AttributeError.
SettingsFields == {"openai_api_key", "openai_base_url", "openai_model"}

RequestRaised(exc) == [built |-> TRUE, raised |-> exc, kwargs |-> {}]

RequestSent(kwargs) == [built |-> TRUE, raised |-> "none", kwargs |-> kwargs]

\* _generate_openai and _generate_openai_stream up to the call of create():
\* the key is required, kwargs holds model and messages (and stream=True
\* when streaming), and temperature = self.settings.openai_temperature is
\* added when the model is not a reasoning model.
BuildOpenAIRequest(model, api_key, streaming) ==
    LET kwargs == {"model", "messages"}
                  \cup (IF streaming THEN {"stream"} ELSE {})
    IN IF ~api_key THEN RequestRaised("RuntimeError")
       ELSE IF IsReasoning(model) THEN RequestSent(kwargs)
       ELSE IF "openai_temperature" \in SettingsFields
       THEN RequestSent(kwargs \cup {"temperature"})
       ELSE RequestRaised("AttributeError")

\* The service with each model name and with and without an API key.
RequestInit ==
    /\ ai_priority = "gpt"
    /\ whisper_use_remote = TRUE
    /\ TurnInit
    /\ EquivIdle
    /\ StoreInit
    /\ SanIdle
    /\ EnginesInit
    /\ SynthIdle
    /\ \E model \in OpenAIModels, key \in BOOLEAN :
         request = [openai_model |-> model, api_key |-> key,
                    atomic |-> NoRequest, stream |-> NoRequest]

\* await self._generate_openai(messages)
GenerateOpenAIRequest ==
    /\ ~request.atomic.built
    /\ request' = [request EXCEPT !.atomic =
                      BuildOpenAIRequest(request.openai_model,
                                         request.api_key, FALSE)]
    /\ UNCHANGED <<turnVars, equivVars, storeVars, san, engineVars, synth>>

\* async for chunk in self._generate_openai_stream(messages)
GenerateOpenAIStreamRequest ==
    /\ ~request.stream.built
    /\ request' = [request EXCEPT !.stream =
                      BuildOpenAIRequest(request.openai_model,
                                         request.api_key, TRUE)]
    /\ UNCHANGED <<turnVars, equivVars, storeVars, san, engineVars, synth>>

NextRequest ==
    \/ GenerateOpenAIRequest
    \/ GenerateOpenAIStreamRequest

SpecRequest == RequestInit /\ [][NextRequest]_vars

--------------------------------------------------------------------------
\* What the claims speak of.

IsStream(c) == call[c].kind = "chat_stream"

IsAtomic(c) == call[c].kind \in {"chat", "transcribe_and_chat"}

Finished(c) == call[c].pc = "finished"

Events(c) == call[c].events

Count(s, x) == Cardinality({i \in DOMAIN s : s[i] = x})

\* Synthesis was invoked and raised.
SynthFailed(c) == call[c].synth_result \notin {"none", "ok"}

\* The Gemini models request c has attempted so far, the one under way last.
Attempted(c) ==
    [i \in 1..Len(call[c].attempts) |-> call[c].attempts[i].m]
    \o (IF call[c].pc \in {"gemini_remembered", "gemini_list", "gemini_stream"}
        THEN <<call[c].cur>> ELSE <<>>)

\* Every provider the call tried has failed and none is left to try.
AllProvidersFailed(c) ==
    /\ ~InLLM(call[c].pc)
    /\ call[c].primary # "ok"
    /\ call[c].attempts # <<>>
    /\ \A i \in DOMAIN call[c].attempts : call[c].attempts[i].res = "fail"

--------------------------------------------------------------------------
\* C1, as claimed: a finished streaming turn has emitted exactly one event of
\* type done or error, and that event is the last of the stream.
C1_ExactlyOneDoneOrError ==
    \A c \in Calls :
        IsStream(c) /\ Finished(c) =>
            {i \in DOMAIN Events(c) : Events(c)[i] \in {"done", "error"}}
                = {Len(Events(c))}

\* C1, amended: a streaming turn always goes on to its end and ends exactly
\* once, with the done event: a finished stream holds exactly one done event,
\* which is its last event; an unfinished stream holds none and can take a
\* step.  An error event is not terminal: there is at most one, it stands for
\* the failed audio stage and done follows it at once.
C1_StreamEndsOnceWithDone ==
    \A c \in Calls :
        IsStream(c) =>
            /\ Finished(c) =>
                 /\ Events(c) # <<>>
                 /\ Events(c)[Len(Events(c))] = "done"
                 /\ Count(Events(c), "done") = 1
            /\ ~Finished(c) =>
                 /\ Count(Events(c), "done") = 0
                 /\ ENABLED (LLMStep(c) \/ SynthesizeReturns(c))
            /\ Count(Events(c), "error") <= 1
            /\ \A i \in DOMAIN Events(c) :
                 Events(c)[i] = "error" =>
                     /\ SynthFailed(c)
                     /\ i + 1 = Len(Events(c))
                     /\ Events(c)[i + 1] = "done"

\* C1, witness: a finished stream whose audio stage failed: error, then done.
C1_Witness ==
    \E c \in Calls :
        /\ IsStream(c) /\ Finished(c) /\ SynthFailed(c)
        /\ Len(Events(c)) >= 2
        /\ Events(c)[Len(Events(c)) - 1] = "error"
        /\ Events(c)[Len(Events(c))] = "done"

\* The event sequences an ordered stream may hold: texts, then emotion, then
\* audio or error or nothing, then done; and their prefixes while it runs.
Texts(s, k) == \A i \in 1..k : s[i] = "text"

OrderedComplete(s) ==
    \E k \in 0..Len(s) :
        /\ Texts(s, k)
        /\ SubSeq(s, k + 1, Len(s)) \in
             { <<"emotion", "done">>,
               <<"emotion", "audio", "done">>,
               <<"emotion", "error", "done">> }

OrderedPrefix(s) ==
    \E k \in 0..Len(s) :
        /\ Texts(s, k)
        /\ SubSeq(s, k + 1, Len(s)) \in {<<>>, <<"emotion">>}

\* C2: the events of a streaming turn come in the order text*, emotion, then
\* at most one audio (error in its place exactly when synthesis failed), then
\* done: a finished stream holds exactly one emotion and one done, no text
\* after the emotion and no audio before it; a running stream holds a prefix
\* of such a sequence.
C2_EventOrder ==
    \A c \in Calls :
        IsStream(c) =>
            /\ Finished(c) =>
                 /\ OrderedComplete(Events(c))
                 /\ Count(Events(c), "emotion") = 1
                 /\ Count(Events(c), "done") = 1
                 /\ Count(Events(c), "audio") = 1 <=> call[c].synth_result = "ok"
                 /\ Count(Events(c), "error") = 1 <=> SynthFailed(c)
            /\ ~Finished(c) => OrderedPrefix(Events(c))

\* C2, witness: a finished stream with a text event, the emotion, the audio
\* and done.
C2_Witness ==
    \E c \in Calls :
        /\ IsStream(c) /\ Finished(c)
        /\ Count(Events(c), "text") >= 2
        /\ Count(Events(c), "audio") = 1

\* C3, as claimed: in an atomic turn whose reply text was generated, a failed
\* synthesis still gives a successful response with audio_url = null.
C3_SynthesisFailureNeverFailsTurn ==
    \A c \in Calls :
        IsAtomic(c) /\ Finished(c) /\ SynthFailed(c) =>
            call[c].status = 200 /\ call[c].audio_url = "null"

\* C4: a streaming turn whose synthesis raised holds its text events, then
\* the emotion event, then an error event in place of the audio event, and
\* still ends with done.
C4_StreamSynthesisFailure ==
    \A c \in Calls :
        IsStream(c) /\ SynthFailed(c) =>
            /\ Finished(c)
            /\ Len(Events(c)) >= 3
            /\ Texts(Events(c), Len(Events(c)) - 3)
            /\ SubSeq(Events(c), Len(Events(c)) - 2, Len(Events(c)))
                 = <<"emotion", "error", "done">>

\* C4, witness: such a stream, with text events, for an exception that is
\* not FileNotFoundError.
C4_Witness ==
    \E c \in Calls :
        /\ IsStream(c) /\ Finished(c)
        /\ call[c].synth_result = "RuntimeError"
        /\ Count(Events(c), "text") >= 1

\* C5: a turn with generate_audio false or without speaker identity (null or
\* empty) never invokes synthesize and produces no audio: no audio event, no
\* audio_url other than null.
C5_NoAudioUnlessRequested ==
    \A c \in Calls :
        /\ call[c].kind # "idle"
        /\ \/ ~call[c].generate_audio
           \/ ~call[c].speaker_id.present
           \/ call[c].speaker_id.id = <<>>
        => /\ call[c].synth_calls = 0
           /\ call[c].synth_result = "none"
           /\ call[c].pc # "synthesize"
           /\ Count(Events(c), "audio") = 0
           /\ call[c].audio_url # "url"
           /\ call[c].status = 200 => call[c].audio_url = "null"

\* C5, witness: a finished atomic turn and a finished stream, both asking
\* for audio with the empty speaker identity.
C5_Witness ==
    \E c \in Calls :
        /\ Finished(c)
        /\ call[c].generate_audio
        /\ call[c].speaker_id = Speaker(<<>>)
        /\ \/ IsAtomic(c) /\ call[c].status = 200
           \/ IsStream(c) /\ Count(Events(c), "text") >= 1

--------------------------------------------------------------------------
\* The first model of the configured secondary list.
FirstListed == GeminiModels[1]

\* The last call that reached the secondary strategy was an atomic call whose
\* primary strategy threw and whose reply came from the first listed model.
FirstListedJustWon ==
    last_reply = [mode |-> "atomic", primary |-> "fail", won |-> FirstListed]

InAtomicFailover(pc) == pc \in {"gemini_remembered", "gemini_list"}

\* The step in which an atomic call of request c enters the secondary strategy.
EntersAtomicFailover(c) ==
    /\ ~InAtomicFailover(call[c].pc)
    /\ InAtomicFailover(call'[c].pc)

\* C6: requests served one after the other.  When the primary strategy has
\* thrown and the first listed model has answered an atomic call, the
\* remembered model is that model when the call returns, it stays so until a
\* later call reaches the secondary strategy, and the next atomic call that
\* reaches the secondary strategy attempts that model first.
C6_FirstListedRememberedAndTriedFirst ==
    /\ [](\A c \in Calls :
            /\ IsAtomic(c) /\ ~InLLM(call[c].pc)
            /\ call[c].primary = "fail"
            /\ ReplySummary(call[c]).won = FirstListed
            => call[c].rem_at_return = FirstListed)
    /\ [](/\ FirstListedJustWon
          /\ \A c \in Calls : call[c].pc \notin
                 {"gemini_remembered", "gemini_list", "gemini_stream"}
          => working_gemini_model = FirstListed)
    /\ [][\A c \in Calls :
            FirstListedJustWon /\ EntersAtomicFailover(c)
            => /\ call'[c].pc = "gemini_remembered"
               /\ call'[c].cur = FirstListed
               /\ call'[c].attempts = <<>>]_vars

\* C6, witness: after such a call, the next atomic call is in the secondary
\* strategy and its first attempt, on the first listed model, is under way.
C6_Witness ==
    \E c \in Calls :
        /\ FirstListedJustWon
        /\ IsAtomic(c)
        /\ call[c].primary = "fail"
        /\ call[c].pc = "gemini_remembered"
        /\ call[c].cur = FirstListed
        /\ call[c].attempts = <<>>

\* The step in which the attempt of request c on the model that was remembered
\* when c reached the secondary strategy fails.
RememberedAttemptFails(c) ==
    /\ call[c].pc \in {"gemini_remembered", "gemini_stream"}
    /\ call[c].rem_at_entry # None
    /\ call[c].cur = call[c].rem_at_entry
    /\ call[c].attempts = <<>>
    /\ call'[c].attempts = <<[m |-> call[c].cur, res |-> "fail"]>>

\* C7, as claimed: under any interleaving of atomic and streaming calls the
\* remembered model is unset or a model of the configured list, and the step
\* in which the attempt on the remembered model fails, in either mode, leaves
\* the remembered model unset before another model is attempted.
C7_RememberedValidAndClearedOnFailure ==
    /\ [](working_gemini_model \in {None} \cup Range(GeminiModels))
    /\ [][\A c \in Calls :
            RememberedAttemptFails(c) => working_gemini_model' = None]_vars

\* C8: an atomic turn in which the primary strategy and every model of the
\* secondary list have failed has tried every configured model, ends with the
\* all-providers-exhausted error, constructs no TurnResult and is answered
\* 502; the 400 of malformed input is given only to a request that never
\* reached a provider.
C8_AtomicExhaustionIsGatewayError ==
    \A c \in Calls :
        /\ IsAtomic(c) /\ AllProvidersFailed(c) =>
             /\ Finished(c)
             /\ call[c].exhausted
             /\ Range(GeminiModels) \subseteq Range(Attempted(c))
             /\ ai_priority = "gpt" => call[c].primary = "fail"
             /\ call[c].status = 502
             /\ call[c].audio_url = "unset"
        /\ call[c].status = 400 =>
             /\ call[c].kind = "transcribe_and_chat"
             /\ call[c].user_text = "unset"
             /\ call[c].primary = "none"
             /\ call[c].attempts = <<>>

\* C8, witness: a transcribe_and_chat turn whose primary strategy and
\* secondary models have all failed.
C8_Witness ==
    \E c \in Calls :
        /\ call[c].kind = "transcribe_and_chat"
        /\ AllProvidersFailed(c)
        /\ call[c].primary = "fail"
        /\ Len(call[c].attempts) >= NumModels

\* C9, as claimed: a streaming turn in which the primary strategy and every
\* model of the secondary list have failed holds an error event.
C9_StreamExhaustionSignalsError ==
    \A c \in Calls :
        IsStream(c) /\ Finished(c) /\ AllProvidersFailed(c) =>
            Count(Events(c), "error") >= 1

\* The order the claim gives: the remembered model first, if set and in the
\* list, then the remaining configured models in configured order.
ExpectedOrder(rem) ==
    IF rem # None /\ rem \in Range(GeminiModels)
    THEN <<rem>> \o SelectSeq(GeminiModels, LAMBDA m : m # rem)
    ELSE GeminiModels

\* C10, as claimed: the models an atomic call attempts are a prefix of that
\* order, so none is attempted twice, and no attempt follows one that
\* returned a result.
C10_AtomicAttemptOrder ==
    \A c \in Calls :
        IsAtomic(c) =>
            /\ Len(Attempted(c)) <= Len(ExpectedOrder(call[c].rem_at_entry))
            /\ Attempted(c) =
                 SubSeq(ExpectedOrder(call[c].rem_at_entry), 1, Len(Attempted(c)))
            /\ \A i \in DOMAIN call[c].attempts :
                 call[c].attempts[i].res = "ok" =>
                     /\ i = Len(call[c].attempts)
                     /\ ~InLLM(call[c].pc)

--------------------------------------------------------------------------
\* C11, as claimed: on a deterministic stub and identical inputs, the
\* concatenation of the text fragments the streaming mode emits equals the
\* assistant_text the atomic mode returns, also when a provider's output has
\* leading or trailing whitespace and when a provider fails part-way.
C11_StreamConcatEqualsAtomicText ==
    /\ equiv.atomic.done /\ ~equiv.atomic.raised
    /\ equiv.stream.done
    => FullText(equiv.stream) = equiv.atomic.text

\* The secondary model whose stream is the first to complete, in the order
\* the claim gives; None if none completes.
RECURSIVE FirstCompleting(_, _)
FirstCompleting(st, models) ==
    IF models = <<>> THEN None
    ELSE IF ~st.gemini[Head(models)].raises THEN Head(models)
    ELSE FirstCompleting(st, Tail(models))

\* C12, as claimed: when the primary strategy of a streaming call fails
\* before any fragment has been emitted, the secondary models are attempted
\* in the order remembered model first, then configured order; the fragments
\* delivered are exactly those of the first secondary model that completes,
\* and that model is the remembered model afterwards.
C12_StreamFallbackDeliversFirstCompleting ==
    LET f == equiv.stream
        order == ExpectedOrder(equiv.w0)
        m == FirstCompleting(stub, order)
    IN /\ f.done
       /\ f.primary = "fail"
       /\ f.primary_frags = <<>>
       => /\ Len(f.tried) <= Len(order)
          /\ f.tried = SubSeq(order, 1, Len(f.tried))
          /\ m # None =>
               /\ f.won = m
               /\ f.frags = GenerateStream(stub.gemini[m]).frags
               /\ f.w = m

--------------------------------------------------------------------------
\* C13, as claimed: at any time, overlapping enrolls with different
\* extensions included, a speaker's directory holds at most one reference
\* file, and a speaker whose enroll has just returned holds exactly one.
C13_AtMostOneReference ==
    /\ \A d \in voices_dir.dirs : Cardinality(References(voices_dir, d)) <= 1
    /\ \A t \in Enrolls :
         enroll[t].pc = "finished" /\ enroll[t].status = 200
         /\ (\A u \in Enrolls \ {t} : enroll[u].pc \notin {"writing", "written"})
         => Cardinality(References(voices_dir, enroll[t].dir)) = 1

\* The step in which GET /voice/speakers answers.
ListSpeakersAnswers == listing.pc = "none" /\ listing'.pc = "returned"

HasReference(fs, d) == References(fs, d) # {}

\* C14, as claimed: a listing that follows a successful enroll holds an entry
\* whose identity equals the identity given to enroll, with has_reference
\* true; and no step of an enroll changes has_reference of another identity.
C14_EnrollThenListReportsIdentity ==
    /\ [][ListSpeakersAnswers =>
            \A t \in Enrolls :
                enroll[t].pc = "finished" /\ enroll[t].status = 200 =>
                    \E i \in DOMAIN listing'.speakers :
                        listing'.speakers[i] =
                            [speaker_id |-> enroll[t].speaker_id,
                             has_reference |-> TRUE]]_vars
    /\ [][\A t \in Enrolls :
            enroll'[t] # enroll[t] /\ enroll'[t].pc # "idle" =>
                \A d \in voices_dir.dirs :
                    d # Sanitize(enroll'[t].speaker_id) =>
                        /\ d \in voices_dir'.dirs
                        /\ HasReference(voices_dir', d)
                             = HasReference(voices_dir, d)]_vars

\* C15: _sanitize_speaker_id is total: every identity is either rejected or
\* given a non-empty identifier made only of letters, digits, "_" and "-";
\* and sanitizing a sanitized identifier returns it unchanged, so that the
\* identifier names one directory.
C15_SanitizeTotalAndIdempotent ==
    /\ san.pc \in {"sanitized", "again"} =>
         \/ san.raised /\ san.cleaned = <<>>
         \/ /\ ~san.raised
            /\ san.cleaned # <<>>
            /\ \A i \in DOMAIN san.cleaned : san.cleaned[i] \in SafeChars
    /\ san.pc = "again" => san.again = san.cleaned
    /\ san.pc = "input" => ENABLED SanitizeSpeakerId

\* C15, witness: an identity that sanitization changed, sanitized again.
C15_Witness ==
    /\ san.pc = "again"
    /\ \E i \in DOMAIN san.speaker_id : san.speaker_id[i] \notin SafeChars
    /\ Len(san.cleaned) >= 2

\* The input errors of an enroll request.
EnrollInputError(e) ==
    \/ e.data = ""
    \/ SuffixOf(e.filename) \notin SupportedSuffixes
    \/ Sanitize(e.speaker_id) = <<>>

\* C16: an enroll request with an empty payload, an unsupported extension or
\* an identity that is empty after sanitization is answered 400, and the step
\* that refuses a request leaves the speaker store as it was: no directory
\* is made and the references stored are still there.
C16_RefusedEnrollChangesNothing ==
    /\ [](\A t \in Enrolls :
            enroll[t].pc # "idle" /\ EnrollInputError(enroll[t]) =>
                /\ enroll[t].pc = "finished"
                /\ enroll[t].status = 400)
    /\ [][\A t \in Enrolls :
            enroll[t].pc = "idle" /\ enroll'[t].status = 400 =>
                voices_dir' = voices_dir]_vars

\* C16, witness: an enroll refused for its extension while the speaker's
\* directory holds a reference.
C16_Witness ==
    \E t \in Enrolls :
        /\ enroll[t].status = 400
        /\ enroll[t].detail = "suffix"
        /\ HasReference(voices_dir, Sanitize(enroll[t].speaker_id))

--------------------------------------------------------------------------
\* C17: a transcribe_and_chat request whose upload is empty is answered 400
\* and calls no provider: neither transcription, nor an LLM, nor synthesis.
C17_EmptyUploadCallsNoProvider ==
    \A c \in Calls :
        call[c].kind = "transcribe_and_chat" /\ call[c].upload_empty =>
            /\ Finished(c)
            /\ call[c].status = 400
            /\ call[c].stt_calls = 0
            /\ call[c].user_text = "unset"
            /\ call[c].primary = "none"
            /\ call[c].attempts = <<>>
            /\ call[c].synth_calls = 0
            /\ call[c].audio_url = "unset"

\* C17, witness: such a request, asking for audio for an enrolled speaker.
C17_Witness ==
    \E c \in Calls :
        /\ call[c].kind = "transcribe_and_chat"
        /\ call[c].upload_empty
        /\ call[c].generate_audio
        /\ call[c].speaker_id = Speaker(<<"b">>)
        /\ call[c].status = 400

\* C20, as claimed: transcribe never returns the empty string, in either
\* mode, so that no turn goes on to the LLM with an empty user_text.
C20_TranscribeNeverReturnsEmpty ==
    \A c \in Calls :
        /\ call[c].user_text # "empty"
        /\ call[c].kind = "transcribe_and_chat" /\ call[c].stt_calls > 0
           /\ (InLLM(call[c].pc) \/ call[c].attempts # <<>>
               \/ call[c].primary # "none")
           => call[c].user_text = "text"

--------------------------------------------------------------------------
\* The threads inside the construction of engine e.
Constructing(e) ==
    {t \in Threads : thread[t].target = e
                     /\ thread[t].pc \in {"construct", "constructing"}}

\* C18, as claimed: the speech-recognition model of an STTService is
\* constructed at most once, whatever the number of transcribe calls and
\* their overlap: at most one thread at a time is inside the construction.
C18_SttModelConstructedOnce ==
    /\ engine["stt"].built <= 1
    /\ Cardinality(Constructing("stt")) <= 1

\* C19: each synthesis engine of a VoiceService (XTTS, Qwen) is constructed
\* at most once under any interleaving: a thread is inside the construction
\* only while it holds the lock and only while the attribute is unset, the
\* attribute is unset until an engine is fully constructed, and every caller
\* that gets an engine gets that one engine.
C19_EnginesConstructedOnce ==
    \A e \in {"tts", "qwen"} :
        /\ engine[e].built <= 1
        /\ engine[e].obj # None <=> engine[e].built = 1
        /\ engine[e].handed \subseteq {1}
        /\ engine[e].handed # {} => engine[e].built = 1
        /\ \A t \in Threads :
             thread[t].target = e =>
                 /\ thread[t].pc \in {"locked_check", "construct",
                                       "constructing", "leave"}
                      <=> engine[e].lock = t
                 /\ thread[t].pc \in {"construct", "constructing"}
                      => engine[e].obj = None
                 /\ thread[t].pc = "returned" => thread[t].got = 1
                 /\ thread[t].pc = "return" => engine[e].obj = 1

\* C19, witness: a thread has got the XTTS engine it constructed while
\* another, past the unlocked check before the engine was there, is at the
\* check inside the lock.
C19_Witness ==
    \E t, u \in Threads :
        /\ t # u
        /\ thread[t].target = "tts" /\ thread[u].target = "tts"
        /\ thread[t].pc = "returned" /\ thread[t].got = 1
        /\ thread[u].pc = "locked_check"
        /\ engine["tts"].built = 1


--------------------------------------------------------------------------
\* What the claims about synthesize speak of.

SynthDone == synth.pc = "finished"

\* The call runs the remote-with-local-fallback strategy.
InQwenMode == IsAliya(synth.speaker_id) /\ synth.tts_mode = "qwen_tts"

\* The call runs the generate-then-convert strategy.
InOpenVoiceMode ==
    IsAliya(synth.speaker_id) /\ synth.tts_mode = "gemini_openvoice"

\* The results of the runs of a stage, in the order of the runs.
RECURSIVE RunsOf(_, _)
RunsOf(log, stage) ==
    IF log = <<>> THEN <<>>
    ELSE (IF Head(log).stage = stage THEN <<Head(log).res>> ELSE <<>>)
         \o RunsOf(Tail(log), stage)

\* C21: in the remote-with-local-fallback mode a failed call of the remote
\* worker, whatever the failure, is followed by exactly one run of the local
\* engine; synthesize fails only if that run fails too and returns the
\* artifact if either attempt succeeds; after a successful remote call the
\* local engine is not run.
C21_RemoteFailureFallsBackToLocalOnce ==
    InQwenMode =>
        LET remote == RunsOf(synth.log, "qwen_remote")
            local  == RunsOf(synth.log, "qwen_local")
        IN /\ Len(remote) <= 1
           /\ Len(local) <= 1
           /\ remote = <<"ok">> => local = <<>>
           /\ SynthDone =>
                /\ (remote # <<>> /\ remote # <<"ok">>) => Len(local) = 1
                /\ synth.result = "ok" <=> "ok" \in Range(remote \o local)
                /\ synth.result # "ok" =>
                     /\ Len(local) = 1
                     /\ synth.result = local[1]

\* The remote worker failed and the local engine gave the artifact.
C21_Witness ==
    /\ InQwenMode
    /\ SynthDone
    /\ synth.log = <<[stage |-> "qwen_remote", res |-> "RuntimeError"],
                     [stage |-> "qwen_local", res |-> "ok"]>>
    /\ synth.result = "ok"

\* C22: in the generate-then-convert mode synthesize returns the artifact
\* only after the base generation and then the conversion have both
\* succeeded; the conversion is not started when the base generation fails,
\* and synthesize fails when either stage fails.
C22_ArtifactNeedsBaseThenConversion ==
    InOpenVoiceMode =>
        LET base    == RunsOf(synth.log, "gemini_tts")
            convert == RunsOf(synth.log, "openvoice")
        IN /\ synth.pc = "openvoice" => base = <<"ok">>
           /\ convert # <<>> => base = <<"ok">>
           /\ SynthDone =>
                /\ synth.result = "ok" <=>
                     synth.log = <<[stage |-> "gemini_tts", res |-> "ok"],
                                   [stage |-> "openvoice", res |-> "ok"]>>
                /\ base # <<"ok">> => convert = <<>> /\ synth.result = base[1]
                /\ (base = <<"ok">> /\ convert # <<"ok">>) =>
                     /\ Len(convert) = 1
                     /\ synth.result = convert[1]

\* Both stages succeeded and synthesize returned the artifact.
C22_Witness ==
    /\ InOpenVoiceMode
    /\ SynthDone
    /\ synth.result = "ok"
    /\ Len(synth.log) = 2


\* The call runs one of the strategies for "aliya", which read the file
\* settings.aliya_reference_audio names.
InAliyaMode ==
    /\ IsAliya(synth.speaker_id)
    /\ synth.tts_mode \in {"qwen_tts", "aliya_xtts", "gemini_openvoice"}

\* The reference of the speaker of the call does not exist.
ReferenceMissing ==
    IF InAliyaMode THEN ~synth.aliya_reference
    ELSE synth.dir # <<>> /\ References(voices_dir, synth.dir) = {}

\* The atomic turn in which the call of synthesize gave res.
TurnAfterSynthesize(res) ==
    FlowSynthesizeReturns(
        NewCall("chat", Speaker(synth.speaker_id), TRUE), res)

\* C23: in every strategy, a call of synthesize for a speaker whose reference
\* does not exist fails with the missing-reference failure
\* (FileNotFoundError), and the atomic turn that made the call answers with
\* audio_url = null.
C23_MissingReferenceDegradesToNoAudio ==
    (SynthDone /\ ReferenceMissing) =>
        /\ synth.result = "FileNotFoundError"
        /\ TurnAfterSynthesize(synth.result).status = 200
        /\ TurnAfterSynthesize(synth.result).audio_url = "null"


--------------------------------------------------------------------------
\* C24: generate_reply never returns an empty or whitespace-only text: a
\* blank result of the primary strategy or of a secondary model is a failure
\* of that provider, and a secondary model that gave a blank result does not
\* become the remembered model.
C24_GenerateReplyNeverReturnsBlank ==
    LET a == equiv.atomic IN
    (a.done /\ ~a.raised) =>
        /\ StripWs(a.text) # <<>>
        /\ a.w \notin {equiv.w0, None} =>
             StripWs(Concat(stub.gemini[a.w].chunks)) # <<>>


\* C28: the remembered model changes to a model only when that model has
\* just returned a non-empty result in the call: in neither mode does a model
\* that raised, or that produced no text at all, become the remembered
\* model; a success of the primary strategy leaves it as it was.
C28_RememberedOnlyAfterNonEmptyResult ==
    LET a == equiv.atomic
        f == equiv.stream
    IN /\ (a.done /\ a.w \notin {equiv.w0, None}) =>
            /\ ~stub.gemini[a.w].raises
            /\ a.text # <<>>
       /\ (f.done /\ f.w \notin {equiv.w0, None}) =>
            /\ ~stub.gemini[f.w].raises
            /\ GenerateStream(stub.gemini[f.w]).frags # <<>>
       /\ (a.done /\ a.tried = <<>>) => a.w = equiv.w0
       /\ (f.done /\ f.primary = "ok") => f.w = equiv.w0


--------------------------------------------------------------------------
\* The stream of the provider of request c ends with an exception in this
\* step, after the provider has yielded fragments.
FailsAfterFragments(c) ==
    /\ IsStream(c)
    /\ call[c].frags >= 1
    /\ \/ /\ call[c].pc = "openai_stream"
          /\ call'[c].primary = "fail"
       \/ /\ call[c].pc = "gemini_stream"
          /\ call'[c].attempts =
                Append(call[c].attempts, [m |-> call[c].cur, res |-> "fail"])

\* The providers of the chain after the one request c is reading.
RestOfChain(c) ==
    IF call[c].pc = "openai_stream" THEN StreamModels(working_gemini_model)
    ELSE SubSeq(call[c].models, call[c].idx + 1, Len(call[c].models))

\* C27: when a provider of a streaming call fails after it has emitted at
\* least one fragment, the text events already sent stay as they are, the
\* call goes on with the next provider of the chain, whose output is read
\* from its beginning, and no event is sent at the failure: the text
\* fragments that follow come directly after the partial ones.
C27_PartialFragmentsStayAndNextProviderRestarts ==
    [][\A c \in Calls :
          FailsAfterFragments(c) =>
              LET rest == RestOfChain(c)
                  n == Len(call[c].events)
              IN /\ Len(call'[c].events) >= n
                 /\ SubSeq(call'[c].events, 1, n) = call[c].events
                 /\ Count(call[c].events, "text") >= call[c].frags
                 /\ rest # <<>> =>
                      /\ call'[c].pc = "gemini_stream"
                      /\ call'[c].cur = rest[1]
                      /\ call'[c].frags = 0
                      /\ call'[c].events = call[c].events
                 /\ rest = <<>> =>
                      /\ call'[c].exhausted
                      /\ Len(call'[c].events) > n
                      /\ call'[c].events[n + 1] = "emotion"]_vars

\* A model of the list has failed after its fragments were sent, and the
\* next model has sent its first fragment after them.
C27_Witness ==
    \E c \in Calls :
        /\ IsStream(c)
        /\ call[c].pc = "gemini_stream"
        /\ call[c].primary = "none"
        /\ Len(call[c].attempts) = 1
        /\ call[c].attempts[1].res = "fail"
        /\ call[c].frags = 1
        /\ call[c].events = <<"text", "text">>


--------------------------------------------------------------------------
\* C25: an atomic turn that asks for audio for a speaker identity that is
\* empty after sanitization is answered with a client-fault response (400),
\* not with 502 or 500, and synthesize is not called again for it.
C25_UnsanitizableSpeakerIsClientFault ==
    \A c \in Calls :
        /\ IsAtomic(c) /\ Finished(c)
        /\ call[c].synth_calls >= 1
        /\ Sanitize(call[c].speaker_id.id) = <<>>
        => /\ call[c].status = 400
           /\ call[c].synth_calls = 1

\* C26: every TurnResult has audio_url = null or an audio_url built from the
\* artifact that the synthesis of this same turn returned after it succeeded;
\* a turn whose synthesis failed or was not run never has a non-null
\* audio_url, and a turn that gives no TurnResult has no audio_url at all.
C26_AudioUrlOnlyFromThisTurnsSynthesis ==
    \A c \in Calls :
        IsAtomic(c) =>
            /\ call[c].status = 200 =>
                 /\ Finished(c)
                 /\ call[c].audio_url \in {"null", "url"}
                 /\ call[c].audio_url = "url" <=>
                      (call[c].synth_calls = 1 /\ call[c].synth_result = "ok")
            /\ call[c].status # 200 => call[c].audio_url = "unset"

\* A TurnResult whose audio_url names the artifact of the turn's synthesis.
C26_Witness ==
    \E c \in Calls :
        /\ IsAtomic(c) /\ Finished(c)
        /\ call[c].status = 200
        /\ call[c].audio_url = "url"
        /\ call[c].synth_result = "ok"

\* generate_reply has returned a text to request c.
ReplyOk(c) ==
    \/ call[c].primary = "ok"
    \/ /\ call[c].attempts # <<>>
       /\ call[c].attempts[Len(call[c].attempts)].res = "ok"

\* C29: in an atomic turn the stages run in the order STT (for an audio
\* input), generate_reply, emotion detection, synthesize (if a speaker and
\* audio are asked for), TurnResult.  While STT runs no later stage has
\* started; while generate_reply runs synthesize has not been called;
\* synthesize is called at most once, only after generate_reply has
\* returned, and with assistant_text as its text; a turn whose STT or whose
\* generate_reply failed calls no later stage and gives no TurnResult.
C29_AtomicStagesRunInOrder ==
    \A c \in Calls :
        IsAtomic(c) =>
            LET r == call[c] IN
            /\ r.pc = "stt" =>
                 /\ r.primary = "none" /\ r.attempts = <<>>
                 /\ r.synth_calls = 0 /\ r.status = 0
            /\ InLLM(r.pc) =>
                 /\ r.synth_calls = 0 /\ r.status = 0
                 /\ r.kind = "transcribe_and_chat" =>
                      r.stt_calls = 1 /\ r.user_text # "unset"
            /\ r.synth_calls > 0 =>
                 /\ r.synth_calls = 1
                 /\ ReplyOk(c)
                 /\ ~InLLM(r.pc) /\ r.pc # "stt"
                 /\ r.synth_text = "assistant_text"
            /\ r.pc = "synthesize" => r.status = 0 /\ r.audio_url = "unset"
            /\ r.status = 200 =>
                 /\ ReplyOk(c)
                 /\ WantsAudio(r) <=> r.synth_calls = 1
            /\ (Finished(c) /\ r.stt_calls = 1 /\ r.user_text = "unset") =>
                 /\ r.primary = "none" /\ r.attempts = <<>>
                 /\ r.synth_calls = 0
                 /\ r.status \in {500, 502} /\ r.audio_url = "unset"
            /\ r.exhausted =>
                 /\ r.synth_calls = 0
                 /\ r.status = 502 /\ r.audio_url = "unset"

\* An audio turn that ran every stage: STT, a reply from the secondary
\* strategy, synthesis, TurnResult.
C29_Witness ==
    \E c \in Calls :
        /\ call[c].kind = "transcribe_and_chat" /\ Finished(c)
        /\ call[c].stt_calls = 1
        /\ call[c].primary = "fail" /\ ReplyOk(c)
        /\ call[c].synth_calls = 1
        /\ call[c].status = 200 /\ call[c].audio_url = "url"


--------------------------------------------------------------------------
\* No enroll request is between its first check and its response.
NoEnrollInFlight == \A t \in Enrolls : enroll[t].pc \in {"idle", "finished"}

\* C30: in the enrolled-default strategy, whatever enrolls came before and
\* whatever their extensions, the reference synthesize looks up once they
\* have all returned is the one written by the enroll that returned last for
\* that speaker; a reference that a later enroll replaced is never the one
\* used.
C30_SynthesisUsesLatestEnrolledReference ==
    [][(/\ synth.pc = "reference"
        /\ synth'.pc # "reference"
        /\ NoEnrollInFlight
        /\ last_enrolled[synth.dir] # NoFile)
       => /\ synth'.pc = "tts"
          /\ synth'.reference = last_enrolled[synth.dir]]_vars


--------------------------------------------------------------------------
\* C31: for every OpenAI model name, when the key is set, the atomic path and
\* the streaming path both send their request and agree on temperature: a
\* model whose name starts with "o1" or "o3" or contains "gpt-5" is sent
\* without a temperature, every other model with the configured one.
C31_BothPathsAgreeOnTemperature ==
    LET model == request.openai_model
        reasoning ==
            \/ StartsWith(model, <<"o", "1">>)
            \/ StartsWith(model, <<"o", "3">>)
            \/ Contains(model, <<"g", "p", "t", "-", "5">>)
    IN (request.api_key /\ request.atomic.built /\ request.stream.built) =>
        /\ request.atomic.raised = "none"
        /\ request.stream.raised = "none"
        /\ "temperature" \in request.atomic.kwargs <=> ~reasoning
        /\ "temperature" \in request.stream.kwargs <=> ~reasoning


\* C32: once a transcribe_and_chat request has finished, whatever its
\* outcome, the temporary file it wrote under uploads_dir no longer exists.
C32_TempUploadRemovedAfterRequest ==
    \A c \in Calls :
        (call[c].kind = "transcribe_and_chat" /\ Finished(c)) =>
            ~call[c].temp_file


--------------------------------------------------------------------------
\* The identity of the enroll request in slot t that takes this step.
EnrollingIdentity(t) ==
    IF enroll[t].pc = "idle" THEN enroll'[t].speaker_id
    ELSE enroll[t].speaker_id

\* Slot t takes a step of an enroll request in this step.
EnrollSteps(t) == enroll'[t] # enroll[t] /\ enroll[t].pc # "finished"

\* C33: for any two distinct identities X and Y that enroll accepts, no step
\* of an enroll for X deletes or replaces the stored reference that synthesis
\* for Y uses.
C33_EnrollLeavesOtherIdentitiesAlone ==
    [][\A t \in Enrolls : \A Y \in EnrollSpeakers :
          (/\ EnrollSteps(t)
           /\ EnrollingIdentity(t) # Y
           /\ Sanitize(EnrollingIdentity(t)) # <<>>
           /\ Sanitize(Y) # <<>>
           /\ References(voices_dir, Sanitize(Y)) # {})
          => References(voices_dir', Sanitize(Y))
               = References(voices_dir, Sanitize(Y))]_vars


--------------------------------------------------------------------------
\* C34: once a speaker has been enrolled, a synthesis for that speaker that
\* runs while the speaker is enrolled again always finds a reference, the old
\* one or the new one: the lookup never meets an enrolled speaker without a
\* reference file and synthesize never fails with the missing-reference
\* failure (FileNotFoundError).
C34_EnrolledSpeakerAlwaysHasReference ==
    [][(/\ synth.pc = "reference"
        /\ synth'.pc # "reference"
        /\ last_enrolled[synth.dir] # NoFile)
       => /\ References(voices_dir, synth.dir) # {}
          /\ synth'.pc = "tts"
          /\ synth'.result # "FileNotFoundError"]_vars


--------------------------------------------------------------------------
\* The last call that reached the secondary strategy ran in the given mode
\* and got its reply from a model, which it left remembered.
JustWon(mode) == last_reply.mode = mode /\ last_reply.won # None

\* The step in which a streaming call of request c enters the secondary
\* strategy.
EntersStreamFailover(c) ==
    /\ call[c].pc # "gemini_stream"
    /\ call'[c].pc = "gemini_stream"

\* C35: requests served one after the other.  The remembered model is one
\* cell of the service, shared by both modes: between calls it holds the
\* model that answered the last call that reached the secondary strategy,
\* whatever the mode of that call; the model a streaming call left remembered
\* is the first one the next atomic call that reaches the secondary strategy
\* attempts, and the model an atomic call left remembered is the first one
\* the next streaming call that reaches it attempts.
C35_RememberedModelSharedByBothModes ==
    /\ [](/\ last_reply.won # None
          /\ \A c \in Calls : call[c].pc \notin
                 {"gemini_remembered", "gemini_list", "gemini_stream"}
          => working_gemini_model = last_reply.won)
    /\ [][\A c \in Calls :
            JustWon("stream") /\ EntersAtomicFailover(c)
            => /\ call'[c].pc = "gemini_remembered"
               /\ call'[c].cur = last_reply.won
               /\ call'[c].attempts = <<>>]_vars
    /\ [][\A c \in Calls :
            JustWon("atomic") /\ EntersStreamFailover(c)
            => /\ call'[c].idx = 1
               /\ call'[c].cur = last_reply.won
               /\ call'[c].attempts = <<>>]_vars

\* C35, witness: a streaming call got its reply from a model other than the
\* first listed one, and the next atomic call is in the secondary strategy
\* with its first attempt, on that model, under way.
C35_Witness ==
    \E c \in Calls :
        /\ JustWon("stream")
        /\ last_reply.won # FirstListed
        /\ IsAtomic(c)
        /\ call[c].pc = "gemini_remembered"
        /\ call[c].cur = last_reply.won
        /\ call[c].rem_at_entry = last_reply.won
        /\ call[c].attempts = <<>>

============================================================================
